---- MODULE Spec2Model ----
(***************************************************************************)
(* Model of the retrieval core of nareon/rag:                              *)
(*   - _mmr        (rasa_rag/actions/retriever.py, actions/retriever.py)   *)
(*   - _merge_hits (full/qa_cli.py, rasa_rag/actions/actions.py)           *)
(*                                                                         *)
(* Numbers.  Vector components and lam are kept in tenths (the integer 9   *)
(* stands for 0.9), so rel and the similarity of two rows are in           *)
(* hundredths and the MMR score lam*rel - (1-lam)*max_div is in            *)
(* thousandths.  The arithmetic is exact; float32 rounding is not          *)
(* modelled.                                                               *)
(*                                                                         *)
(* Each component has its own specification (MmrSpec, MergeSpec); the      *)
(* variables of the other component stay at their idle values.             *)
(***************************************************************************)
EXTENDS Integers, Sequences, FiniteSets, TLC

VARIABLES
    \* ---- _mmr(q, C, k, lam) ----
    q,          \* query vector
    C,          \* candidate matrix: a sequence of rows (row i of the code is C[i+1])
    kArg,       \* the count k as passed by the caller
    k,          \* the local k; overwritten by min(k, n) on entry
    lam,        \* trade-off parameter, in tenths
    rel,        \* rel = C @ q, a function on 0..n-1
    sel,        \* indices selected so far, in selection order
    avail,      \* set of indices not selected yet
    it,         \* number of completed iterations of "for _ in range(k)"
    mpc,        \* position in _mmr: "idle", "entry", "loop", "done"
    \* ---- _merge_hits(*hit_groups, limit) ----
    hit_groups, \* the sequences passed in, in argument order
    limit,      \* the limit argument; "unread" until the final slice reads it
    by_id,      \* the dict by_id: <<[key, ref], ...>> in insertion order; ref is
                \* the position of the kept hit in the traversal (the dict holds
                \* the hit object itself, not a copy)
    pos,        \* number of hits the generator has yielded so far
    out,        \* the returned list, as refs
    gpc,        \* position in _merge_hits: "idle", "loop", "done", "raised"
    \* ---- two calls of _merge_hits side by side ----
    fIn,        \* the groups passed to the first call
    fAlt,       \* the groups passed to the second call
    fLimit,     \* the limit passed to both calls
    fOnce,      \* what the first call does: [raised, kept, outs]
    fAgain,     \* what the second call does
    fpc,        \* "idle", "start", "once", "twice", "reordered", "inline", "returned"
    \* ---- search_hybrid(query, lang_filter, topk) and the module globals ----
    client,     \* the global _client: 0 is None, else the handle built
    model,      \* the global _model: 0 is None, else the handle built
    clientMade, \* number of QdrantClient objects built so far
    modelMade,  \* number of SentenceTransformer objects built so far
    topk,       \* the topk argument of the running call
    fetch,      \* TOPK_FETCH, as configured by the environment
    qvec,       \* the embedding of the query
    embedCalls, \* calls of m.encode in the running call
    indexCalls, \* limits requested from cli.search in the running call, in order
    res,        \* the response of cli.search
    sout,       \* the list search_hybrid returns
    serr,       \* the exception that left search_hybrid, "none" if none
    calls,      \* calls of search_hybrid so far
    spc,        \* "idle", "called", "embedded", "queried", "mmr", "returned", "raised"
    \* ---- the pipelines: main of full/qa_cli, full_qdrant/qa_cli, ActionRAGAnswer.run ----
    pipeline,   \* "full", "full_qdrant", "rasa"
    translator, \* the module global _to_en: "absent", "ok", "throws"
    query,      \* the stripped question
    query_en,   \* what maybe_translate_ru2en returned
    hits_ru,    \* result of the search with the original query
    hits_en,    \* result of the search with the translated query
    searches,   \* the queries search_hybrid was called with, in order
    searchErr,  \* a call of search_hybrid raised
    fuse_order, \* which result list went into which argument of _merge_hits
    uttered,    \* the messages ActionRAGAnswer.run sent through the dispatcher, in order
    useLlm,     \* args.llm of a main; run always asks the LLM
    llm,        \* self._llm of the action: 0 is None, 1 a client
    llmCalls,   \* calls of LLMClient.generate
    events,     \* what the pipeline returned: "unset", "[]" or "None"
    ppc,        \* "idle", "start", "translated", "searched", "fusing", "merged",
                \* "returned", "raised"
    \* ---- the chunkers: chunk_text of full/ingest.py and of ingest.py, _chunk_text ----
    chunker,    \* "full", "light", "top"
    ctext,      \* the argument text, a sequence of characters
    max_len,    \* the argument max_len
    overlap,    \* the argument overlap
    words,      \* text.split()
    step,       \* the step of the range
    start,      \* the loop variable
    chunks,     \* the chunks yielded so far
    cpc,        \* "idle", "start", "loop", "done", "raised"
    \* ---- LLMClient.generate ----
    retries,    \* self.retries
    posts,      \* what each POST attempt so far ended with, in order
    err,        \* the local err: "None" or the exception of the last failed attempt
    sleeps,     \* calls of time.sleep
    answer,     \* what generate returned or raised
    lpc,        \* "idle", "loop", "returned", "raised"
    \* ---- _translate_to_ru of light/build_store.py ----
    ltext,      \* the argument text, a sequence of code points
    translators, \* the module global _translators_to_ru: what each translate does
    looks,      \* what _looks_like_russian(text) gives: "unset", "True", "False"
    tried,      \* calls of translator.translate so far
    lout,       \* what _translate_to_ru returned: "unset", "text", "translation"
    tpc,        \* "idle", "start", "loop", "done"
    \* ---- threads in their first call of search_hybrid ----
    at,         \* where each thread is in _client_singleton and _model_singleton
    fresh,      \* the instance a thread has constructed and not yet stored
    cliOf,      \* the local cli of each thread: 0 before line 77
    mOf         \* the local m of _embed of each thread: 0 before line 50

mmrVars == <<q, C, kArg, k, lam, rel, sel, avail, it, mpc>>

mergeVars == <<hit_groups, limit, by_id, pos, out, gpc>>

fuseVars == <<fIn, fAlt, fLimit, fOnce, fAgain, fpc>>

searchVars == <<client, model, clientMade, modelMade, topk, fetch, qvec, embedCalls,
                indexCalls, res, sout, serr, calls, spc>>

pipeVars == <<pipeline, translator, query, query_en, hits_ru, hits_en, searches, searchErr,
              fuse_order,
              uttered, useLlm, llm, llmCalls, events, ppc>>

chunkVars == <<chunker, ctext, max_len, overlap, words, step, start, chunks, cpc>>

genVars == <<retries, posts, err, sleeps, answer, lpc>>

\* the variables of the helpers outside the query path
langVars == <<ltext, translators, looks, tried, lout, tpc>>

raceVars == <<at, fresh, cliOf, mOf>>

toolVars == <<chunkVars, genVars, langVars, raceVars>>

queryVars == <<mmrVars, mergeVars, fuseVars, searchVars, pipeVars>>

notChunkVars == <<queryVars, genVars, langVars, raceVars>>

notGenVars == <<queryVars, chunkVars, langVars, raceVars>>

notLangVars == <<queryVars, chunkVars, genVars, raceVars>>

\* what the two singleton functions leave alone
notHandleVars == <<topk, fetch, qvec, embedCalls, indexCalls, res, sout, serr, calls, spc,
                   mmrVars, mergeVars, fuseVars, pipeVars, chunkVars, genVars, langVars>>

\* everything but the variables of _mmr, and everything but those of _merge_hits
notMmrVars == <<mergeVars, fuseVars, searchVars, pipeVars, toolVars>>

notMergeVars == <<mmrVars, fuseVars, searchVars, pipeVars, toolVars>>

vars == <<mmrVars, mergeVars, fuseVars, searchVars, pipeVars, toolVars>>

----------------------------------------------------------------------------
(* Bounds of the model *)

MaxN == 4       \* most rows of C
MaxK == 4       \* largest k passed in
MaxHits == 3    \* most hits in all groups together
MaxLimit == 3   \* largest limit passed in
MaxCand == 3    \* most candidates the index returns
MaxTopk == 2    \* largest topk passed to search_hybrid
MaxCalls == 3   \* most calls of search_hybrid in one process

----------------------------------------------------------------------------
(* Input domains *)

\* rows and queries, in tenths; holds the rows of the spec's end-to-end
\* scenario, <<10,0>>, <<9,1>>, <<-10,0>>
Vecs == {<<10, 0>>, <<9, 1>>, <<-10, 0>>, <<0, 10>>}

\* lam values in tenths: 0, MMR_LAMBDA's default 0.4, and 1
Lams == {0, 4, 10}

\* the matrices of at most MaxN rows
Matrices == UNION {[1..n -> Vecs] : n \in 0..MaxN}

----------------------------------------------------------------------------
(* numpy / builtin helpers *)

Min(a, b) == IF a <= b THEN a ELSE b

RECURSIVE DotFrom(_, _, _)
DotFrom(v, w, d) ==
    IF d > Len(v) THEN 0 ELSE v[d] * w[d] + DotFrom(v, w, d + 1)

\* v @ w for two vectors
Dot(v, w) == DotFrom(v, w, 1)

\* mutant of ArgMax: the last occurrence of the maximum
ArgMaxLast(f, n) ==
    CHOOSE i \in 0..(n - 1) :
        /\ \A j \in 0..(n - 1) : f[j] <= f[i]
        /\ \A j \in (i + 1)..(n - 1) : f[j] < f[i]

\* np.argmax(f) over indices 0..n-1: the first occurrence of the maximum
ArgMax(f, n) ==
    CHOOSE i \in 0..(n - 1) :
        /\ \A j \in 0..(n - 1) : f[j] <= f[i]
        /\ \A j \in 0..(i - 1) : f[j] < f[i]

\* mutant of SetIterOrder: a traversal in descending order
RECURSIVE SetIterOrderDesc(_)
SetIterOrderDesc(S) ==
    IF S = {} THEN <<>>
    ELSE LET hi == CHOOSE x \in S : \A y \in S : y <= x
         IN  <<hi>> \o SetIterOrderDesc(S \ {hi})

\* Order in which CPython iterates a set of small non-negative ints: hash(i) = i
\* and the table of set(range(n)) has more than n slots, so element i sits in
\* slot i and a traversal visits the elements in ascending order (removals
\* only leave dummy slots behind).
RECURSIVE SetIterOrder(_)
SetIterOrder(S) ==
    IF S = {} THEN <<>>
    ELSE LET lo == CHOOSE x \in S : \A y \in S : x <= y
         IN  <<lo>> \o SetIterOrder(S \ {lo})

\* builtin max(iterable, key=...): the first item whose key is maximal
\* (an item replaces the running maximum only when its key is strictly greater)
RECURSIVE PyMaxFrom(_, _, _, _)
PyMaxFrom(items, key, best, p) ==
    IF p > Len(items) THEN best
    ELSE IF key[items[p]] > key[best]
         THEN PyMaxFrom(items, key, items[p], p + 1)
         ELSE PyMaxFrom(items, key, best, p + 1)

PyMax(items, key) == PyMaxFrom(items, key, items[1], 2)

----------------------------------------------------------------------------
(* _mmr *)

NRows == Len(C)

\* max_div = (C[sel] @ C.T).max(axis=0): for every row j, the largest
\* similarity to a selected row
RECURSIVE MaxOver(_)
MaxOver(S) ==
    LET x == CHOOSE y \in S : TRUE
    IN  IF S = {x} THEN x
        ELSE LET m == MaxOver(S \ {x}) IN IF x > m THEN x ELSE m

MaxDiv(j) == MaxOver({Dot(C[sel[p] + 1], C[j + 1]) : p \in 1..Len(sel)})

\* mutant of MmrScore: lam and 1 - lam swapped
MmrScoreSwapped == [j \in 0..(NRows - 1) |-> (10 - lam) * rel[j] - lam * MaxDiv(j)]

\* mutant of MmrScore: the diversity penalty left out
MmrScoreNoDiversity == [j \in 0..(NRows - 1) |-> lam * rel[j]]

\* mmr = lam * rel - (1 - lam) * max_div   (lam in tenths)
MmrScore == [j \in 0..(NRows - 1) |-> lam * rel[j] - (10 - lam) * MaxDiv(j)]

MmrIdle ==
    /\ q = <<>>
    /\ C = <<>>
    /\ kArg = 0
    /\ k = 0
    /\ lam = 0
    /\ rel = <<>>
    /\ sel = <<>>
    /\ avail = {}
    /\ it = 0
    /\ mpc = "idle"

MergeIdle ==
    /\ hit_groups = <<>>
    /\ limit = "unread"
    /\ by_id = <<>>
    /\ pos = 0
    /\ out = <<>>
    /\ gpc = "idle"

FuseIdle ==
    /\ fIn = <<>>
    /\ fAlt = <<>>
    /\ fLimit = 0
    /\ fOnce = <<>>
    /\ fAgain = <<>>
    /\ fpc = "idle"

SearchIdle ==
    /\ client = 0
    /\ model = 0
    /\ clientMade = 0
    /\ modelMade = 0
    /\ topk = 0
    /\ fetch = 0
    /\ qvec = <<>>
    /\ embedCalls = 0
    /\ indexCalls = <<>>
    /\ res = [kind |-> "unset", points |-> <<>>]
    /\ sout = <<>>
    /\ serr = "none"
    /\ calls = 0
    /\ spc = "idle"

PipeIdle ==
    /\ pipeline = "none"
    /\ translator = "absent"
    /\ query = ""
    /\ query_en = ""
    /\ hits_ru = <<>>
    /\ hits_en = <<>>
    /\ searches = <<>>
    /\ searchErr = FALSE
    /\ fuse_order = <<>>
    /\ uttered = <<>>
    /\ useLlm = FALSE
    /\ llm = 0
    /\ llmCalls = 0
    /\ events = "unset"
    /\ ppc = "idle"

ChunkIdle ==
    /\ chunker = "none"
    /\ ctext = <<>>
    /\ max_len = 1
    /\ overlap = 0
    /\ words = <<>>
    /\ step = 1
    /\ start = 0
    /\ chunks = <<>>
    /\ cpc = "idle"

GenIdle ==
    /\ retries = 0
    /\ posts = <<>>
    /\ err = "None"
    /\ sleeps = 0
    /\ answer = "unset"
    /\ lpc = "idle"

LangIdle ==
    /\ ltext = <<>>
    /\ translators = <<>>
    /\ looks = "unset"
    /\ tried = 0
    /\ lout = "unset"
    /\ tpc = "idle"

RaceIdle ==
    /\ at = <<>>
    /\ fresh = <<>>
    /\ cliOf = <<>>
    /\ mOf = <<>>

ToolIdle ==
    /\ ChunkIdle
    /\ GenIdle
    /\ LangIdle
    /\ RaceIdle

MmrInit ==
    /\ ToolIdle
    /\ MergeIdle
    /\ FuseIdle
    /\ SearchIdle
    /\ PipeIdle
    /\ q \in Vecs
    /\ C \in Matrices
    /\ kArg \in 0..MaxK
    /\ k = kArg
    /\ lam \in Lams
    /\ rel = <<>>
    /\ sel = <<>>
    /\ avail = {}
    /\ it = 0
    /\ mpc = "entry"

\* lines 58-61: k = min(k, n); rel = C @ q; sel = []; avail = set(range(n))
MmrEnter ==
    /\ mpc = "entry"
    /\ k' = Min(k, NRows)
    /\ rel' = [i \in 0..(NRows - 1) |-> Dot(C[i + 1], q)]
    /\ sel' = <<>>
    /\ avail' = 0..(NRows - 1)
    /\ it' = 0
    /\ mpc' = "loop"
    /\ UNCHANGED <<q, C, kArg, lam, notMmrVars>>

\* lines 63-65: the first iteration, sel is empty
MmrFirstPick ==
    /\ mpc = "loop"
    /\ it < k
    /\ sel = <<>>
    /\ LET i == ArgMax(rel, NRows)
       IN  /\ sel' = Append(sel, i)
           /\ avail' = avail \ {i}
    /\ it' = it + 1
    /\ UNCHANGED <<q, C, kArg, k, lam, rel, mpc, notMmrVars>>

\* mutant of MmrPick: the pick is not removed from avail
MmrPickNoRemove ==
    /\ mpc = "loop"
    /\ it < k
    /\ sel # <<>>
    /\ LET i == PyMax(SetIterOrder(avail), MmrScore)
       IN  sel' = Append(sel, i)
    /\ it' = it + 1
    /\ UNCHANGED <<q, C, kArg, k, lam, rel, avail, mpc, notMmrVars>>

\* lines 66-71: every later iteration
MmrPick ==
    /\ mpc = "loop"
    /\ it < k
    /\ sel # <<>>
    /\ LET i == PyMax(SetIterOrder(avail), MmrScore)
       IN  /\ sel' = Append(sel, i)
           /\ avail' = avail \ {i}
    /\ it' = it + 1
    /\ UNCHANGED <<q, C, kArg, k, lam, rel, mpc, notMmrVars>>

\* line 72: return sel
MmrReturn ==
    /\ mpc = "loop"
    /\ it = k
    /\ mpc' = "done"
    /\ UNCHANGED <<q, C, kArg, k, lam, rel, sel, avail, it, notMmrVars>>

MmrNext ==
    \/ MmrEnter
    \/ MmrFirstPick
    \/ MmrPick
    \/ MmrReturn

MmrSpec == MmrInit /\ [][MmrNext]_vars

----------------------------------------------------------------------------
(* Claims about _mmr, checked under MmrSpec *)

IndexSet(s) == {s[p] : p \in 1..Len(s)}

\* the MMR score of candidate j against a set S of already selected rows, as
\* the specification writes it: lam * rel[j] - (1 - lam) * max_{s in S} dot(C[j], C[s])
ClaimScore(j, S) ==
    lam * Dot(C[j + 1], q)
        - (10 - lam) * (LET sims == {Dot(C[j + 1], C[s + 1]) : s \in S}
                        IN  CHOOSE m \in sims : \A x \in sims : x <= m)

\* C1: _mmr returns exactly min(k, n) indices, pairwise distinct and all in
\* [0, n); for k >= n the result is a permutation of 0..n-1, for n = 0 it is empty.
C1_MmrDistinctInRange ==
    mpc = "done" =>
        /\ Len(sel) = Min(kArg, NRows)
        /\ \A p1, p2 \in 1..Len(sel) : p1 # p2 => sel[p1] # sel[p2]
        /\ \A p \in 1..Len(sel) : sel[p] \in 0..(NRows - 1)
        /\ kArg >= NRows => IndexSet(sel) = 0..(NRows - 1)
        /\ NRows = 0 => sel = <<>>

\* a run that returned several indices from a matrix with duplicate rows, k < n
C1_Witness ==
    /\ mpc = "done"
    /\ NRows = 3
    /\ kArg = 2
    /\ Len(sel) = 2
    /\ C[1] = C[2]

\* C2: the first index returned has maximal relevance rel[i] = dot(C[i], q),
\* and among the candidates of maximal relevance it is the lowest index.
C2_FirstPickArgmax ==
    Len(sel) >= 1 =>
        /\ \A j \in 0..(NRows - 1) : Dot(C[j + 1], q) <= Dot(C[sel[1] + 1], q)
        /\ \A j \in 0..(NRows - 1) :
              Dot(C[j + 1], q) = Dot(C[sel[1] + 1], q) => sel[1] <= j

\* a first pick made while two candidates shared the maximal relevance
C2_Witness ==
    /\ Len(sel) >= 1
    /\ \E j \in 0..(NRows - 1) :
          /\ j # sel[1]
          /\ Dot(C[j + 1], q) = Dot(C[sel[1] + 1], q)

C4_LamOneIsRelevanceOrder ==
    (mpc = "done" /\ lam = 10) =>
        \A p \in 1..(Len(sel) - 1) :
            LET a == sel[p]
                b == sel[p + 1]
            IN  /\ Dot(C[a + 1], q) >= Dot(C[b + 1], q)
                /\ Dot(C[a + 1], q) = Dot(C[b + 1], q) => a < b

\* a lam = 1 run returning three indices, two of them of equal relevance and
\* whose matrix was not already in relevance order
C4_Witness ==
    /\ mpc = "done"
    /\ lam = 10
    /\ Len(sel) = 3
    /\ sel # <<0, 1, 2>>
    /\ \E p \in 1..2 : Dot(C[sel[p] + 1], q) = Dot(C[sel[p + 1] + 1], q)

\* the spec's end-to-end scenario: C = [[1,0],[0.9,0.1],[-1,0]], q = [1,0],
\* k = 2, lam = 0.4
Scenario ==
    /\ C = << <<10, 0>>, <<9, 1>>, <<-10, 0>> >>
    /\ q = <<10, 0>>
    /\ kArg = 2
    /\ lam = 4

\* C5: in the scenario _mmr returns [0, 2]: index 0 first (rel 1.0), then
\* index 2 (mmr 0.2) is preferred over index 1 (mmr -0.18).
C5_ScenarioPicksZeroThenTwo ==
    Scenario =>
        /\ Len(sel) >= 1 => (sel[1] = 0 /\ rel[0] = 100)
        /\ (mpc = "loop" /\ sel = <<0>>) => (MmrScore[2] = 200 /\ MmrScore[1] = -180)
        /\ mpc = "done" => sel = <<0, 2>>

\* the scenario has run to its return
C5_Witness == Scenario /\ mpc = "done" /\ Len(sel) = 2

----------------------------------------------------------------------------
(* _merge_hits: values *)

\* Python values a hit can carry under "score".  Finite floats are in tenths.
Num(n)  == [kind |-> "float", v |-> n]
NaN     == [kind |-> "nan", v |-> 0]          \* float("nan")
PosInf  == [kind |-> "inf", v |-> 1]          \* float("inf")
NegInf  == [kind |-> "inf", v |-> -1]         \* float("-inf")
Huge    == [kind |-> "bigint", v |-> 0]       \* an int beyond the float range, 10**400
Bad     == [kind |-> "str", v |-> 0]          \* the string "bad"
NoScore == [kind |-> "none", v |-> 0]         \* no "score" key: hit.get gives None

\* hit.get("id") of a hit without an id (missing key or None)
None == "None"

Hit(i, sc) == [id |-> i, score |-> sc]

\* the hits the inputs are drawn from
Hits ==
    {Hit("A", sc) : sc \in {Num(2), Num(9), NaN, PosInf, NegInf, Huge, Bad, NoScore}}
        \cup {Hit("B", sc) : sc \in {Num(2), Num(9), Bad}}
        \cup {Hit(None, Num(9))}

\* isinstance(score, (int, float))
IsIntOrFloat(sc) == sc.kind \in {"float", "nan", "inf", "bigint"}

\* float(score) raises OverflowError for an int too large for a float
FloatRaises(sc) == sc.kind = "bigint"

\* float(a) > float(b) for values float() accepts
FloatGt(a, b) ==
    IF a.kind = "nan" \/ b.kind = "nan" THEN FALSE
    ELSE IF a.kind = "inf" THEN IF a.v = 1 THEN b # PosInf ELSE FALSE
    ELSE IF b.kind = "inf" THEN b.v = -1
    ELSE a.v > b.v

\* str(hit_id); ids are strings (search_hybrid builds them with str(r.id)),
\* and str of a string is that string
StrOf(i) == i

----------------------------------------------------------------------------
(* _merge_hits: traversal, dict and sort *)

\* the generator (h for group in hit_groups for h in group), unrolled
RECURSIVE FlatFrom(_, _)
FlatFrom(groups, g) ==
    IF g > Len(groups) THEN <<>> ELSE groups[g] \o FlatFrom(groups, g + 1)

Flat == FlatFrom(hit_groups, 1)

NHits == Len(Flat)

\* the hit a ref stands for
HitAt(r) == Flat[r]

\* by_id.get(key): the slot of key in by_id, 0 when absent (None)
Slot(key) ==
    IF \E p \in 1..Len(by_id) : by_id[p].key = key
    THEN CHOOSE p \in 1..Len(by_id) : by_id[p].key = key
    ELSE 0

\* by_id.values(), in insertion order
Values == [p \in 1..Len(by_id) |-> by_id[p].ref]

\* the sort key float(h["score"])
SortKey(r) == HitAt(r).score

\* stable insertion of r into a list sorted descending by key: r goes behind
\* every item whose key is not smaller than its own
RECURSIVE InsertDesc(_, _)
InsertDesc(sorted, r) ==
    IF sorted = <<>> THEN <<r>>
    ELSE IF FloatGt(SortKey(r), SortKey(Head(sorted)))
         THEN <<r>> \o sorted
         ELSE <<Head(sorted)>> \o InsertDesc(Tail(sorted), r)

RECURSIVE StableSortDescFrom(_, _, _)
StableSortDescFrom(items, sorted, p) ==
    IF p > Len(items) THEN sorted
    ELSE StableSortDescFrom(items, InsertDesc(sorted, items[p]), p + 1)

\* sorted(items, key=..., reverse=True) for keys that are totally ordered:
\* descending, items of equal key in their original order
StableSortDesc(items) == StableSortDescFrom(items, <<>>, 1)

\* the rearrangements of a list
Rearrangements(items) ==
    {[p \in 1..Len(items) |-> items[f[p]]] : f \in Permutations(1..Len(items))}

\* What sorted(items, key=..., reverse=True) can return.  A NaN key compares
\* False with everything, the keys are then not totally ordered and the
\* order of the result is whatever the build's list sort makes of it.
SortedOutcomes(items) ==
    IF \E p \in 1..Len(items) : SortKey(items[p]).kind = "nan"
    THEN Rearrangements(items)
    ELSE {StableSortDesc(items)}

\* items[:n] for n >= 0
Take(items, n) == SubSeq(items, 1, Min(n, Len(items)))

----------------------------------------------------------------------------
(* _merge_hits: the function *)

\* The inputs are two groups holding at most MaxHits hits in all (a call
\* with one group traverses the same hits as a call with an empty second
\* group).  limit is read by the final slice only and is drawn there.
MergeInit ==
    /\ ToolIdle
    /\ MmrIdle
    /\ FuseIdle
    /\ SearchIdle
    /\ PipeIdle
    /\ \E n \in 0..MaxHits :
          \E f \in [1..n -> Hits] :
              \E c \in 0..n :
                  hit_groups = <<SubSeq(f, 1, c), SubSeq(f, c + 1, n)>>
    /\ limit = "unread"
    /\ by_id = <<>>
    /\ pos = 0
    /\ out = <<>>
    /\ gpc = "loop"

\* the hit the generator yields next
NextHit == HitAt(pos + 1)

\* lines 76-78: hit_id is None: continue
MergeSkipNoId ==
    /\ gpc = "loop"
    /\ pos < NHits
    /\ NextHit.id = None
    /\ pos' = pos + 1
    /\ UNCHANGED <<hit_groups, limit, by_id, out, gpc, notMergeVars>>

\* lines 80-82: score is no int or float: continue
MergeSkipNonNumeric ==
    /\ gpc = "loop"
    /\ pos < NHits
    /\ NextHit.id # None
    /\ ~IsIntOrFloat(NextHit.score)
    /\ pos' = pos + 1
    /\ UNCHANGED <<hit_groups, limit, by_id, out, gpc, notMergeVars>>

\* lines 84-87, stored is None: the hit is kept under its key
MergeInsert ==
    /\ gpc = "loop"
    /\ pos < NHits
    /\ NextHit.id # None
    /\ IsIntOrFloat(NextHit.score)
    /\ Slot(StrOf(NextHit.id)) = 0
    /\ by_id' = Append(by_id, [key |-> StrOf(NextHit.id), ref |-> pos + 1])
    /\ pos' = pos + 1
    /\ UNCHANGED <<hit_groups, limit, out, gpc, notMergeVars>>

\* mutant of MergeCompare: the stored hit is replaced on an equal score too
MergeCompareGe ==
    /\ gpc = "loop"
    /\ pos < NHits
    /\ NextHit.id # None
    /\ IsIntOrFloat(NextHit.score)
    /\ LET p == Slot(StrOf(NextHit.id))
       IN  /\ p # 0
           /\ ~FloatRaises(NextHit.score)
           /\ ~FloatRaises(HitAt(by_id[p].ref).score)
           /\ by_id' = IF ~FloatGt(HitAt(by_id[p].ref).score, NextHit.score)
                       THEN [by_id EXCEPT ![p].ref = pos + 1]
                       ELSE by_id
    /\ pos' = pos + 1
    /\ UNCHANGED <<hit_groups, limit, out, gpc, notMergeVars>>

\* lines 84-87, a hit is stored under the key: it is replaced when
\* float(score) > float(stored score)
MergeCompare ==
    /\ gpc = "loop"
    /\ pos < NHits
    /\ NextHit.id # None
    /\ IsIntOrFloat(NextHit.score)
    /\ LET p == Slot(StrOf(NextHit.id))
       IN  /\ p # 0
           /\ ~FloatRaises(NextHit.score)
           /\ ~FloatRaises(HitAt(by_id[p].ref).score)
           /\ by_id' = IF FloatGt(NextHit.score, HitAt(by_id[p].ref).score)
                       THEN [by_id EXCEPT ![p].ref = pos + 1]
                       ELSE by_id
    /\ pos' = pos + 1
    /\ UNCHANGED <<hit_groups, limit, out, gpc, notMergeVars>>

\* line 86: float() of the score or of the stored score raises OverflowError
MergeCompareRaises ==
    /\ gpc = "loop"
    /\ pos < NHits
    /\ NextHit.id # None
    /\ IsIntOrFloat(NextHit.score)
    /\ LET p == Slot(StrOf(NextHit.id))
       IN  /\ p # 0
           /\ FloatRaises(NextHit.score) \/ FloatRaises(HitAt(by_id[p].ref).score)
    /\ gpc' = "raised"
    /\ UNCHANGED <<hit_groups, limit, by_id, pos, out, notMergeVars>>

\* line 89: return sorted(by_id.values(), key=..., reverse=True)[:limit]
MergeReturn ==
    /\ gpc = "loop"
    /\ pos = NHits
    /\ \A p \in 1..Len(by_id) : ~FloatRaises(SortKey(by_id[p].ref))
    /\ \E n \in 0..MaxLimit :
          /\ limit' = n
          /\ \E sorted \in SortedOutcomes(Values) : out' = Take(sorted, n)
    /\ gpc' = "done"
    /\ UNCHANGED <<hit_groups, by_id, pos, notMergeVars>>

\* line 89: the sort key float(h["score"]) raises OverflowError
MergeReturnRaises ==
    /\ gpc = "loop"
    /\ pos = NHits
    /\ \E p \in 1..Len(by_id) : FloatRaises(SortKey(by_id[p].ref))
    /\ gpc' = "raised"
    /\ UNCHANGED <<hit_groups, limit, by_id, pos, out, notMergeVars>>

MergeNext ==
    \/ MergeSkipNoId
    \/ MergeSkipNonNumeric
    \/ MergeInsert
    \/ MergeCompare
    \/ MergeCompareRaises
    \/ MergeReturn
    \/ MergeReturnRaises

MergeSpec == MergeInit /\ [][MergeNext]_vars

----------------------------------------------------------------------------
(* Claims about _merge_hits, checked under MergeSpec *)

\* a score that is a finite number
IsFinite(sc) == sc.kind = "float"

\* an entry the specification counts as valid: it has an id and a finite score
IsValidEntry(h) == h.id # None /\ IsFinite(h.score)

\* a >= b and a = b on scores, as IEEE comparisons (false when either is NaN)
ScoreGe(a, b) == a.kind # "nan" /\ b.kind # "nan" /\ ~FloatGt(b, a)
ScoreEq(a, b) == a.kind # "nan" /\ b.kind # "nan" /\ a = b

OutHit(p) == HitAt(out[p])

\* C6: with a limit that does not truncate, the output holds each id at most
\* once, holds an entry for every id with a valid input entry, and the entry
\* of an id carries a score no valid input entry of that id exceeds (the
\* maximum).  Violated by the code: see C10, a NaN score is kept.
C6_MaxScorePerId ==
    (gpc = "done" /\ limit >= Len(by_id)) =>
        /\ \A p1, p2 \in 1..Len(out) : p1 # p2 => OutHit(p1).id # OutHit(p2).id
        /\ \A r \in 1..NHits :
              IsValidEntry(HitAt(r)) => \E p \in 1..Len(out) : OutHit(p).id = HitAt(r).id
        /\ \A p \in 1..Len(out) : \A r \in 1..NHits :
              (IsValidEntry(HitAt(r)) /\ HitAt(r).id = OutHit(p).id)
                  => ScoreGe(OutHit(p).score, HitAt(r).score)

\* C7: the returned list is ordered by score non-increasing and is the first
\* min(limit, number of kept ids) entries of the kept entries, so no dropped
\* entry has a score strictly greater than a returned one.  Violated by the
\* code: see C10, a kept NaN score has no place in a descending order.
C7_SortedDescAndTruncated ==
    gpc = "done" =>
        /\ Len(out) = Min(limit, Len(by_id))
        /\ \A p \in 1..Len(out) : \E s \in 1..Len(by_id) : by_id[s].ref = out[p]
        /\ \A p1, p2 \in 1..Len(out) : p1 # p2 => out[p1] # out[p2]
        /\ \A p \in 1..(Len(out) - 1) : ScoreGe(OutHit(p).score, OutHit(p + 1).score)
        /\ \A s \in 1..Len(by_id) :
              (\A p \in 1..Len(out) : out[p] # by_id[s].ref)
                  => \A p \in 1..Len(out) :
                        ~FloatGt(HitAt(by_id[s].ref).score, OutHit(p).score)

\* C8: a hit whose id is already stored replaces the stored hit only when its
\* score is strictly greater; on an exactly equal score the stored hit, the
\* one met first in the traversal, stays.
C8_FirstSeenKeptOnTie ==
    [][(/\ gpc = "loop"
        /\ pos' = pos + 1
        /\ NextHit.id # None
        /\ IsIntOrFloat(NextHit.score)
        /\ Slot(NextHit.id) # 0)
          => LET p      == Slot(NextHit.id)
                 stored == HitAt(by_id[p].ref).score
             IN  /\ ScoreEq(NextHit.score, stored) => by_id' = by_id
                 /\ by_id' # by_id =>
                       /\ FloatGt(NextHit.score, stored)
                       /\ by_id' = [by_id EXCEPT ![p].ref = pos + 1]
                 /\ Len(by_id') = Len(by_id)]_vars

\* two hits of one id and equal score, one in each group, have been
\* traversed and the first of them is the one stored
C8_Witness ==
    /\ Len(hit_groups[1]) = 1
    /\ pos = 2
    /\ HitAt(1).id = HitAt(2).id
    /\ ScoreEq(HitAt(1).score, HitAt(2).score)
    /\ by_id = <<[key |-> HitAt(1).id, ref |-> 1]>>

\* C9: _merge_hits never raises, and no entry without an id or with a score
\* that is no number is returned.  Violated by the code: float() of an int
\* score beyond the float range raises OverflowError.
C9_NeverRaisesDropsMalformed ==
    /\ gpc # "raised"
    /\ gpc = "done" =>
          \A p \in 1..Len(out) : OutHit(p).id # None /\ IsIntOrFloat(OutHit(p).score)

\* C10: an entry whose score is NaN, +infinity or -infinity is never kept
\* and never returned.  Violated by the code: the only test on the score is
\* isinstance(score, (int, float)).
C10_NonFiniteScoreSkipped ==
    /\ \A s \in 1..Len(by_id) : HitAt(by_id[s].ref).score.kind \notin {"nan", "inf"}
    /\ \A p \in 1..Len(out) : OutHit(p).score.kind \notin {"nan", "inf"}

\* The three claims above that the code violates fail on non-finite scores
\* only: on inputs without NaN and infinite scores C6 and C7 hold.
NoNonFiniteInput == \A r \in 1..NHits : HitAt(r).score.kind \notin {"nan", "inf"}

C6_HoldsWithoutNonFinite == NoNonFiniteInput => C6_MaxScorePerId

C7_HoldsWithoutNonFinite == NoNonFiniteInput => C7_SortedDescAndTruncated

----------------------------------------------------------------------------
(* _merge_hits as a function of its arguments *)

\* a hit dict together with its identity: two dicts of equal id and score
\* are still two objects (their payloads may differ)
Obj(h, n) == [id |-> h.id, score |-> h.score, obj |-> n]

\* a list of hits drawn from Hits, each its own object
Tagged(f) == [p \in 1..Len(f) |-> Obj(f[p], p)]

\* by_id.get(key) on a given dict: nothing is ever found
PureSlotNever(by, key) == 0

\* by_id.get(key) on a given dict: the slot of key, 0 when absent (None)
PureSlot(by, key) ==
    IF \E p \in 1..Len(by) : by[p].key = key
    THEN CHOOSE p \in 1..Len(by) : by[p].key = key
    ELSE 0

\* The loop over (h for group in hit_groups for h in group) from position p
\* on, with the dict built so far; the dict keeps insertion order and a
\* replaced value stays in its key's place.
RECURSIVE PureLoop(_, _, _)
PureLoop(flat, p, by) ==
    IF p > Len(flat) THEN [raised |-> FALSE, by |-> by]
    ELSE LET h == flat[p]
             s == PureSlot(by, StrOf(h.id))
         IN  IF h.id = None \/ ~IsIntOrFloat(h.score)
             THEN PureLoop(flat, p + 1, by)
             ELSE IF s = 0
             THEN PureLoop(flat, p + 1, Append(by, [key |-> StrOf(h.id), hit |-> h]))
             ELSE IF FloatRaises(h.score) \/ FloatRaises(by[s].hit.score)
             THEN [raised |-> TRUE, by |-> by]
             ELSE IF FloatGt(h.score, by[s].hit.score)
             THEN PureLoop(flat, p + 1, [by EXCEPT ![s].hit = h])
             ELSE PureLoop(flat, p + 1, by)

\* stable insertion of hit h into a list sorted descending by score
RECURSIVE PureInsertDesc(_, _)
PureInsertDesc(sorted, h) ==
    IF sorted = <<>> THEN <<h>>
    ELSE IF FloatGt(h.score, Head(sorted).score)
         THEN <<h>> \o sorted
         ELSE <<Head(sorted)>> \o PureInsertDesc(Tail(sorted), h)

RECURSIVE PureSortDescFrom(_, _, _)
PureSortDescFrom(items, sorted, p) ==
    IF p > Len(items) THEN sorted
    ELSE PureSortDescFrom(items, PureInsertDesc(sorted, items[p]), p + 1)

\* what sorted(by_id.values(), key=..., reverse=True) can return: the stable
\* descending order, or with a NaN key whatever the list sort makes of it
PureSortedOutcomes(items) ==
    IF \E p \in 1..Len(items) : items[p].score.kind = "nan"
    THEN Rearrangements(items)
    ELSE {PureSortDescFrom(items, <<>>, 1)}

\* _merge_hits(*groups, limit=lim): whether it raises, by_id.values() as
\* handed to sorted, and the lists it can return
merge_hits(groups, lim) ==
    LET l == PureLoop(FlatFrom(groups, 1), 1, <<>>)
        kept == [p \in 1..Len(l.by) |-> l.by[p].hit]
    IN  IF l.raised \/ \E p \in 1..Len(kept) : FloatRaises(kept[p].score)
        THEN [raised |-> TRUE, kept |-> <<>>, outs |-> {}]
        ELSE [raised |-> FALSE, kept |-> kept,
              outs |-> {Take(sorted, lim) : sorted \in PureSortedOutcomes(kept)}]

\* the first call: _merge_hits(*fIn, limit=n)
FuseOnce ==
    /\ fpc = "start"
    /\ \E n \in 0..MaxLimit :
          /\ fLimit' = n
          /\ fOnce' = merge_hits(fIn, n)
    /\ fpc' = "once"
    /\ UNCHANGED <<fIn, fAlt, fAgain, mmrVars, mergeVars, searchVars, pipeVars, toolVars>>

\* the second call: _merge_hits(S, S, limit=fLimit) for fIn = <<S>>
FuseTwice ==
    /\ fpc = "once"
    /\ Len(fIn) = 1
    /\ fAlt' = <<fIn[1], fIn[1]>>
    /\ fAgain' = merge_hits(fAlt', fLimit)
    /\ fpc' = "twice"
    /\ UNCHANGED <<fIn, fLimit, fOnce, mmrVars, mergeVars, searchVars, pipeVars, toolVars>>

\* the inputs are one sequence S of at most MaxHits hits
IdemInit ==
    /\ ToolIdle
    /\ MmrIdle /\ MergeIdle /\ SearchIdle /\ PipeIdle
    /\ \E n \in 0..MaxHits : \E f \in [1..n -> Hits] : fIn = <<Tagged(f)>>
    /\ fAlt = <<>> /\ fLimit = 0 /\ fOnce = <<>> /\ fAgain = <<>>
    /\ fpc = "start"

IdemNext == FuseOnce \/ FuseTwice

IdemSpec == IdemInit /\ [][IdemNext]_vars

\* C11: merging a sequence with itself changes nothing: _merge_hits(S, S,
\* limit) neither raises nor returns differently from _merge_hits(S, limit);
\* the dict values handed to the sort are the same objects in the same order,
\* so the returned list has the same ids, scores and order.
C11_MergeWithItselfSame ==
    fpc = "twice" =>
        /\ fAgain.raised = fOnce.raised
        /\ fAgain.kept = fOnce.kept
        /\ fAgain.outs = fOnce.outs

\* a sequence that holds an id twice with different numeric scores, merged
\* with itself and returning a non-empty list
C11_Witness ==
    /\ fpc = "twice"
    /\ ~fOnce.raised
    /\ \E o \in fOnce.outs : Len(o) >= 1
    /\ \E a, b \in 1..Len(fIn[1]) :
          /\ a < b
          /\ fIn[1][a].id = fIn[1][b].id
          /\ fIn[1][a].id # None
          /\ fIn[1][a].score.kind = "float"
          /\ fIn[1][b].score.kind = "float"
          /\ fIn[1][a].score # fIn[1][b].score

----------------------------------------------------------------------------
(* _merge_hits on reordered arguments *)

\* the second call: the same hits, the argument sequences swapped or not and
\* the entries of each put in any order
FuseReordered ==
    /\ fpc = "once"
    /\ Len(fIn) = 2
    /\ \E swap \in BOOLEAN :
          \E g1 \in Rearrangements(fIn[1]) :
              \E g2 \in Rearrangements(fIn[2]) :
                  fAlt' = IF swap THEN <<g2, g1>> ELSE <<g1, g2>>
    /\ fAgain' = merge_hits(fAlt', fLimit)
    /\ fpc' = "reordered"
    /\ UNCHANGED <<fIn, fLimit, fOnce, mmrVars, mergeVars, searchVars, pipeVars, toolVars>>

\* the inputs are two sequences holding at most MaxHits hits in all
PermInit ==
    /\ ToolIdle
    /\ MmrIdle /\ MergeIdle /\ SearchIdle /\ PipeIdle
    /\ \E n \in 0..MaxHits :
          \E f \in [1..n -> Hits] :
              \E c \in 0..n :
                  fIn = <<SubSeq(Tagged(f), 1, c), SubSeq(Tagged(f), c + 1, n)>>
    /\ fAlt = <<>> /\ fLimit = 0 /\ fOnce = <<>> /\ fAgain = <<>>
    /\ fpc = "start"

PermNext == FuseOnce \/ FuseReordered

PermSpec == PermInit /\ [][PermNext]_vars

\* no two valid entries (id present, finite score) of the input have equal
\* scores
NoEqualValidScores(groups) ==
    LET flat == FlatFrom(groups, 1)
    IN  \A a, b \in 1..Len(flat) :
            (a # b /\ IsValidEntry(flat[a]) /\ IsValidEntry(flat[b]))
                => flat[a].score # flat[b].score

\* the ids and scores of a returned list, in order
Shown(o) == [p \in 1..Len(o) |-> [id |-> o[p].id, score |-> o[p].score]]

\* C12: when no two valid input entries have equal scores, the result does
\* not depend on the order of the argument sequences nor on the order of the
\* entries inside them: the reordered call raises exactly when the first
\* does and returns a list of the same ids and scores in the same order.
C12_OrderIndependentWithoutTies ==
    (fpc = "reordered" /\ NoEqualValidScores(fIn)) =>
        /\ fAgain.raised = fOnce.raised
        /\ {Shown(o) : o \in fAgain.outs} = {Shown(o) : o \in fOnce.outs}

\* the input holds no NaN and no infinity
FuseNoNonFinite ==
    LET flat == FlatFrom(fIn, 1)
    IN  \A a \in 1..Len(flat) : flat[a].score.kind \notin {"nan", "inf"}

C12_HoldsWithoutNonFinite == FuseNoNonFinite => C12_OrderIndependentWithoutTies

----------------------------------------------------------------------------
(* search_hybrid: the index response *)

\* TOPK_FETCH as the environment may set it: below and above every topk
Fetches == {1, 20}

\* MMR_LAMBDA, in tenths (0.4 unless the environment says otherwise)
MMR_LAMBDA == 4

\* what m.encode(...)[0] can give for a query
QueryVecs == {<<10, 0>>, <<0, 10>>}

\* r.vector of a scored point: a plain vector, a dict of named vectors with
\* or without a "dense" entry, an empty dict, or None
Plain(v)      == [form |-> "plain", v |-> v]
NamedDense(v) == [form |-> "dense", v |-> v]
NamedOther(v) == [form |-> "other", v |-> v]
EmptyDict     == [form |-> "empty", v |-> <<>>]
NoVector      == [form |-> "none", v |-> <<>>]

\* the scored points a response is made of, without id and score
Points ==
    {[vector |-> Plain(<<10, 0>>), payload |-> "text"],
     [vector |-> Plain(<<9, 1>>), payload |-> None],
     [vector |-> NamedDense(<<0, 10>>), payload |-> "text"],
     [vector |-> NamedOther(<<-10, 0>>), payload |-> "text"],
     [vector |-> EmptyDict, payload |-> "text"],
     [vector |-> NoVector, payload |-> "text"]}

\* r.id and r.score of the point at place p of a response: the index gives
\* distinct points, best score first
IdAt(p) == 100 + p

ScoreAt(p) == 10 - p

\* the non-empty responses of cli.search
Responses ==
    UNION {{[p \in 1..n |-> [id |-> IdAt(p), score |-> ScoreAt(p),
                             vector |-> f[p].vector, payload |-> f[p].payload]]
                : f \in [1..n -> Points]} : n \in 1..MaxCand}

\* res before cli.search has answered, and its answers
Unset == [kind |-> "unset", points |-> <<>>]

NoneResponse == [kind |-> "None", points |-> <<>>]

ListResponse(points) == [kind |-> "list", points |-> points]

\* "not res" that only knows None
NotResOnlyNone == res.kind = "None"

\* "not res" of line 93
NotRes == res.kind = "None" \/ res.points = <<>>

Max(a, b) == IF a >= b THEN a ELSE b

\* line 103: r.vector, or for a dict its "dense" entry or else its first value
VectorOf(r) == r.vector.v

\* line 103 raises StopIteration: next(iter({}.values()))
VectorRaises(r) == r.vector.form = "empty"

\* np.asarray(None, dtype=np.float32) is a 0-d NaN, not a row of the width of
\* the others (nor of qvec): np.vstack or C @ q raises ValueError
VectorUnusable(r) == r.vector.form = "none"

\* str(r.id)
StrOfId(i) == <<"str", i>>

\* r.payload or {}
PayloadOf(r) == IF r.payload = None THEN "{}" ELSE r.payload

----------------------------------------------------------------------------
(* search_hybrid: the function, called again and again in one process *)

SearchInit ==
    /\ ToolIdle
    /\ MmrIdle /\ MergeIdle /\ FuseIdle /\ PipeIdle
    /\ client = 0 /\ model = 0 /\ clientMade = 0 /\ modelMade = 0
    /\ topk = 0
    /\ fetch \in Fetches
    /\ qvec = <<>> /\ embedCalls = 0 /\ indexCalls = <<>>
    /\ res = Unset /\ sout = <<>> /\ serr = "none"
    /\ calls = 0
    /\ spc = "idle"

\* a call of search_hybrid that builds a client whether or not there is one
SearchCallRebuilds ==
    /\ spc \in {"idle", "returned", "raised"}
    /\ calls < MaxCalls
    /\ calls' = calls + 1
    /\ topk' \in 0..MaxTopk
    /\ clientMade' = clientMade + 1
    /\ client' = clientMade'
    /\ qvec' = <<>> /\ embedCalls' = 0 /\ indexCalls' = <<>>
    /\ res' = Unset /\ sout' = <<>> /\ serr' = "none"
    /\ q' = <<>> /\ C' = <<>> /\ kArg' = 0 /\ k' = 0 /\ lam' = 0
    /\ rel' = <<>> /\ sel' = <<>> /\ avail' = {} /\ it' = 0 /\ mpc' = "idle"
    /\ spc' = "called"
    /\ UNCHANGED <<model, modelMade, fetch, mergeVars, fuseVars, pipeVars, toolVars>>

\* a call of search_hybrid and its line 77, cli = _client_singleton(): the
\* client is built when _client is None
SearchCall ==
    /\ spc \in {"idle", "returned", "raised"}
    /\ calls < MaxCalls
    /\ calls' = calls + 1
    /\ topk' \in 0..MaxTopk
    /\ IF client = 0
       THEN /\ clientMade' = clientMade + 1
            /\ client' = clientMade'
       ELSE UNCHANGED <<client, clientMade>>
    /\ qvec' = <<>> /\ embedCalls' = 0 /\ indexCalls' = <<>>
    /\ res' = Unset /\ sout' = <<>> /\ serr' = "none"
    /\ q' = <<>> /\ C' = <<>> /\ kArg' = 0 /\ k' = 0 /\ lam' = 0
    /\ rel' = <<>> /\ sel' = <<>> /\ avail' = {} /\ it' = 0 /\ mpc' = "idle"
    /\ spc' = "called"
    /\ UNCHANGED <<model, modelMade, fetch, mergeVars, fuseVars, pipeVars, toolVars>>

\* line 79, qvec = _embed([query])[0]: the model is built when _model is
\* None, then m.encode is called
SearchEmbed ==
    /\ spc = "called"
    /\ IF model = 0
       THEN /\ modelMade' = modelMade + 1
            /\ model' = modelMade'
       ELSE UNCHANGED <<model, modelMade>>
    /\ embedCalls' = embedCalls + 1
    /\ qvec' \in QueryVecs
    /\ spc' = "embedded"
    /\ UNCHANGED <<client, clientMade, topk, fetch, indexCalls, res, sout, serr, calls,
                   mmrVars, mergeVars, fuseVars, pipeVars, toolVars>>

\* line 79 when SentenceTransformer(EMBED_MODEL) raises: _model stays None
SearchModelLoadRaises ==
    /\ spc = "called"
    /\ model = 0
    /\ serr' = "embed"
    /\ spc' = "raised"
    /\ UNCHANGED <<client, model, clientMade, modelMade, topk, fetch, qvec,
                   embedCalls, indexCalls, res, sout, calls,
                   mmrVars, mergeVars, fuseVars, pipeVars, toolVars>>

\* line 79 when m.encode raises
SearchEmbedRaises ==
    /\ spc = "called"
    /\ IF model = 0
       THEN /\ modelMade' = modelMade + 1
            /\ model' = modelMade'
       ELSE UNCHANGED <<model, modelMade>>
    /\ embedCalls' = embedCalls + 1
    /\ serr' = "embed"
    /\ spc' = "raised"
    /\ UNCHANGED <<client, clientMade, topk, fetch, qvec, indexCalls, res, sout, calls,
                   mmrVars, mergeVars, fuseVars, pipeVars, toolVars>>

\* cli.search asked for TOPK_FETCH points whatever topk is
SearchQueryFetchOnly ==
    /\ spc = "embedded"
    /\ indexCalls' = Append(indexCalls, fetch)
    /\ \/ res' = NoneResponse
       \/ res' = ListResponse(<<>>)
       \/ \E points \in Responses :
             /\ Len(points) <= fetch
             /\ res' = ListResponse(points)
    /\ spc' = "queried"
    /\ UNCHANGED <<client, model, clientMade, modelMade, topk, fetch, qvec,
                   embedCalls, sout, serr, calls, mmrVars, mergeVars, fuseVars, pipeVars, toolVars>>

\* lines 85-92: cli.search(..., limit=max(TOPK_FETCH, topk), ...) answers with
\* None, an empty list or at most limit scored points
SearchQuery ==
    /\ spc = "embedded"
    /\ indexCalls' = Append(indexCalls, Max(fetch, topk))
    /\ \/ res' = NoneResponse
       \/ res' = ListResponse(<<>>)
       \/ \E points \in Responses :
             /\ Len(points) <= Max(fetch, topk)
             /\ res' = ListResponse(points)
    /\ spc' = "queried"
    /\ UNCHANGED <<client, model, clientMade, modelMade, topk, fetch, qvec,
                   embedCalls, sout, serr, calls, mmrVars, mergeVars, fuseVars, pipeVars, toolVars>>

\* cli.search raises and search_hybrid answers with an empty list
SearchQueryRaisesSwallowed ==
    /\ spc = "embedded"
    /\ indexCalls' = Append(indexCalls, Max(fetch, topk))
    /\ sout' = <<>>
    /\ spc' = "returned"
    /\ UNCHANGED <<client, model, clientMade, modelMade, topk, fetch, qvec,
                   embedCalls, res, serr, calls, mmrVars, mergeVars, fuseVars, pipeVars, toolVars>>

\* lines 85-92 when cli.search raises
SearchQueryRaises ==
    /\ spc = "embedded"
    /\ indexCalls' = Append(indexCalls, Max(fetch, topk))
    /\ serr' = "index"
    /\ spc' = "raised"
    /\ UNCHANGED <<client, model, clientMade, modelMade, topk, fetch, qvec,
                   embedCalls, res, sout, calls, mmrVars, mergeVars, fuseVars, pipeVars, toolVars>>

\* lines 93-95: if not res: return []
SearchReturnEmpty ==
    /\ spc = "queried"
    /\ NotRes
    /\ sout' = <<>>
    /\ spc' = "returned"
    /\ UNCHANGED <<client, model, clientMade, modelMade, topk, fetch, qvec,
                   embedCalls, indexCalls, res, serr, calls,
                   mmrVars, mergeVars, fuseVars, pipeVars, toolVars>>

\* lines 99-110 with a point whose vector is an empty dict or None: the loop
\* raises StopIteration at the first empty dict; with none of those, a None
\* vector makes np.vstack (or C @ q inside _mmr) raise ValueError
SearchBuildRaises ==
    /\ spc = "queried"
    /\ ~NotRes
    /\ \E p \in 1..Len(res.points) : VectorRaises(res.points[p]) \/ VectorUnusable(res.points[p])
    /\ serr' = IF \E p \in 1..Len(res.points) : VectorRaises(res.points[p])
               THEN "StopIteration" ELSE "ValueError"
    /\ spc' = "raised"
    /\ UNCHANGED <<client, model, clientMade, modelMade, topk, fetch, qvec,
                   embedCalls, indexCalls, res, sout, calls,
                   mmrVars, mergeVars, fuseVars, pipeVars, toolVars>>

\* lines 99-110: C is stacked from the vectors and _mmr(qvec, C, k=topk,
\* lam=MMR_LAMBDA) is entered
SearchBuild ==
    /\ spc = "queried"
    /\ ~NotRes
    /\ \A p \in 1..Len(res.points) : ~VectorRaises(res.points[p]) /\ ~VectorUnusable(res.points[p])
    /\ q' = qvec
    /\ C' = [p \in 1..Len(res.points) |-> VectorOf(res.points[p])]
    /\ kArg' = topk
    /\ k' = topk
    /\ lam' = MMR_LAMBDA
    /\ rel' = <<>> /\ sel' = <<>> /\ avail' = {} /\ it' = 0
    /\ mpc' = "entry"
    /\ spc' = "mmr"
    /\ UNCHANGED <<client, model, clientMade, modelMade, topk, fetch, qvec,
                   embedCalls, indexCalls, res, sout, serr, calls,
                   mergeVars, fuseVars, pipeVars, toolVars>>

\* the records are taken from the first points of the response, not from idx
SearchShapeByRank ==
    /\ spc = "mmr"
    /\ mpc = "done"
    /\ sout' = [j \in 1..Len(sel) |->
                   [id      |-> StrOfId(res.points[j].id),
                    score   |-> res.points[j].score,
                    payload |-> PayloadOf(res.points[j])]]
    /\ spc' = "returned"
    /\ UNCHANGED <<client, model, clientMade, modelMade, topk, fetch, qvec,
                   embedCalls, indexCalls, res, serr, calls,
                   mmrVars, mergeVars, fuseVars, pipeVars, toolVars>>

\* lines 111-112: out = [{"id": ids[i], "score": scores[i],
\* "payload": payloads[i]} for i in idx]; return out
SearchShape ==
    /\ spc = "mmr"
    /\ mpc = "done"
    /\ sout' = [j \in 1..Len(sel) |->
                   [id      |-> StrOfId(res.points[sel[j] + 1].id),
                    score   |-> res.points[sel[j] + 1].score,
                    payload |-> PayloadOf(res.points[sel[j] + 1])]]
    /\ spc' = "returned"
    /\ UNCHANGED <<client, model, clientMade, modelMade, topk, fetch, qvec,
                   embedCalls, indexCalls, res, serr, calls,
                   mmrVars, mergeVars, fuseVars, pipeVars, toolVars>>

SearchNext ==
    \/ SearchCall
    \/ SearchEmbed
    \/ SearchModelLoadRaises
    \/ SearchEmbedRaises
    \/ SearchQuery
    \/ SearchQueryRaises
    \/ SearchReturnEmpty
    \/ SearchBuildRaises
    \/ SearchBuild
    \/ MmrEnter
    \/ MmrFirstPick
    \/ MmrPick
    \/ MmrReturn
    \/ SearchShape

SearchSpec == SearchInit /\ [][SearchNext]_vars

----------------------------------------------------------------------------
(* search_hybrid: claims *)

\* the index has answered the running call
Answered == res.kind # "unset"

\* the index has answered with at least one point, all with a usable vector
WellFormed ==
    /\ res.kind = "list"
    /\ res.points # <<>>
    /\ \A p \in 1..Len(res.points) : res.points[p].vector.form \in {"plain", "dense", "other"}

\* C13: when the index answers with no candidates (None or an empty list),
\* search_hybrid does not raise and does not enter _mmr, and what it returns
\* is the empty list.
C13_NoCandidatesReturnsEmpty ==
    (res.kind = "None" \/ (res.kind = "list" /\ res.points = <<>>)) =>
        /\ spc \in {"queried", "returned"}
        /\ serr = "none"
        /\ mpc = "idle"
        /\ sout = <<>>

\* the index answered None and search_hybrid has returned
C13_Witness == res.kind = "None" /\ spc = "returned" /\ sout = <<>>

\* C14: with m >= 1 well-formed candidates search_hybrid does not raise and
\* returns min(topk, m) records; _mmr was run on the query vector, the
\* candidates' vectors, topk and MMR_LAMBDA, and the j-th record is the id,
\* the index's own score and the payload of the candidate at the j-th index
\* _mmr chose; no candidate is returned twice.
C14_RecordsFollowMmrChoice ==
    WellFormed =>
        /\ serr = "none"
        /\ spc \in {"queried", "mmr", "returned"}
        /\ spc = "returned" =>
              /\ mpc = "done"
              /\ q = qvec
              /\ C = [p \in 1..Len(res.points) |-> res.points[p].vector.v]
              /\ kArg = topk
              /\ lam = MMR_LAMBDA
              /\ Len(sout) = Min(topk, Len(res.points))
              /\ Len(sout) = Len(sel)
              /\ \A j \in 1..Len(sout) :
                    /\ sout[j].id = StrOfId(res.points[sel[j] + 1].id)
                    /\ sout[j].score = res.points[sel[j] + 1].score
                    /\ sout[j].payload = (IF res.points[sel[j] + 1].payload = None
                                          THEN "{}"
                                          ELSE res.points[sel[j] + 1].payload)
              /\ \A i, j \in 1..Len(sout) : i # j => sout[i].id # sout[j].id

\* three well-formed candidates, topk = 2, and _mmr skipping the second
\* candidate (a near duplicate of the first) for the third
C14_Witness ==
    /\ WellFormed
    /\ spc = "returned"
    /\ Len(res.points) = 3
    /\ topk = 2
    /\ sel = <<0, 2>>
    /\ Len(sout) = 2

\* C15: every query of the index asks for exactly max(TOPK_FETCH, topk)
\* candidates, which is never less than topk.
C15_LimitIsMaxOfFetchAndTopk ==
    \A p \in 1..Len(indexCalls) :
        /\ indexCalls[p] >= topk
        /\ indexCalls[p] >= fetch
        /\ indexCalls[p] \in {topk, fetch}

\* the index was asked with topk above TOPK_FETCH
C15_Witness == indexCalls # <<>> /\ topk > fetch /\ spc = "queried"

\* C16: one call of search_hybrid calls the embedder at most once and the
\* index at most once; when the embedder fails the error that leaves is the
\* embedder's and the index was never queried; when the index fails the
\* error that leaves is the index's, not the embedder's; in both cases
\* nothing is returned.
C16_NoRetryErrorsPropagate ==
    /\ embedCalls <= 1
    /\ Len(indexCalls) <= 1
    /\ serr = "embed" => (spc = "raised" /\ indexCalls = <<>> /\ res = Unset /\ sout = <<>>)
    /\ serr = "index" => (spc = "raised" /\ embedCalls = 1 /\ Len(indexCalls) = 1
                            /\ res = Unset /\ sout = <<>>)
    /\ spc = "returned" => (serr = "none" /\ Answered)
    /\ spc = "raised" => serr # "none"

\* the index failed after the embedder had answered
C16_Witness == serr = "index" /\ spc = "raised" /\ embedCalls = 1 /\ qvec # <<>>

\* C17: a candidate without a usable vector (None or an empty dict) is left
\* out of the matrix given to _mmr and search_hybrid still returns records of
\* the well-formed candidates; it does not raise.
C17_UnusableVectorExcluded ==
    (res.kind = "list"
        /\ \E p \in 1..Len(res.points) : res.points[p].vector.form \in {"empty", "none"}) =>
        /\ serr = "none"
        /\ spc # "raised"
        /\ spc = "returned" =>
              \A j \in 1..Len(sout) :
                  \E p \in 1..Len(res.points) :
                      /\ res.points[p].vector.form \notin {"empty", "none"}
                      /\ sout[j].id = StrOfId(res.points[p].id)

\* C18: over the calls of search_hybrid in one process the index client and
\* the embedding model are each built at most once, and once built the
\* global keeps that same object: it is never reset nor replaced.
C18_SingletonsBuiltOnce ==
    /\ clientMade <= 1
    /\ modelMade <= 1
    /\ client = clientMade
    /\ model = modelMade

\* a later call has used the client and the model built by an earlier one
C18_Witness ==
    /\ calls >= 2
    /\ spc = "embedded"
    /\ client = 1 /\ clientMade = 1
    /\ model = 1 /\ modelMade = 1

----------------------------------------------------------------------------
(* the pipelines: translation, the two searches, the fusion *)

\* main of full/qa_cli.py, main of full_qdrant/qa_cli.py, ActionRAGAnswer.run
Pipelines == {"full", "full_qdrant", "rasa"}

\* the stripped question: empty or not
Queries == {"", "vopros"}

\* what _to_en.translate can return for a text: nothing, the text itself, or
\* another text
Translations(text) == {"", text, "question"}

\* query_en before maybe_translate_ru2en has returned
Untranslated == "(unset)"

Returned(value) == [raised |-> FALSE, value |-> value]

Raised == [raised |-> TRUE, value |-> ""]

\* maybe_translate_ru2en without the try/except around _to_en.translate
maybe_translate_ru2en_unguarded(text) ==
    IF translator = "absent" THEN {Returned(text)}
    ELSE IF translator = "throws" THEN {Raised}
    ELSE {Returned(t) : t \in Translations(text)}

\* maybe_translate_ru2en of full/qa_cli.py and full_qdrant/qa_cli.py
maybe_translate_ru2en(text) ==
    IF translator = "absent" THEN {Returned(text)}
    ELSE IF translator = "throws" THEN {Returned(text)}
    ELSE {Returned(t) : t \in Translations(text)}

\* maybe_translate_ru2en of rasa_rag/actions/actions.py
maybe_translate_ru2en_rasa(text) ==
    IF text = "" THEN {Returned("")}
    ELSE IF translator = "absent" THEN {Returned(text)}
    ELSE IF translator = "throws" THEN {Returned(text)}
    ELSE {Returned(t) : t \in Translations(text)}

\* what search_hybrid returns to a pipeline: records with a string id and a
\* float score, no id twice
SearchResults ==
    LET hs == {Hit(i, Num(n)) : i \in {"A", "B"}, n \in {2, 9}}
    IN  {<<>>} \cup {<<h>> : h \in hs}
            \cup {<<h, g>> : h \in {x \in hs : x.id = "A"}, g \in {x \in hs : x.id = "B"}}
            \cup {<<g, h>> : h \in {x \in hs : x.id = "A"}, g \in {x \in hs : x.id = "B"}}

PipeInit ==
    /\ ToolIdle
    /\ MmrIdle /\ MergeIdle /\ FuseIdle /\ SearchIdle
    /\ pipeline \in Pipelines
    /\ translator \in {"absent", "ok", "throws"}
    /\ query \in Queries
    /\ query_en = Untranslated
    /\ hits_ru = <<>> /\ hits_en = <<>> /\ searches = <<>>
    /\ searchErr = FALSE
    /\ fuse_order = <<>>
    /\ uttered = <<>>
    /\ useLlm \in (IF pipeline = "rasa" THEN {TRUE} ELSE BOOLEAN)
    /\ llm = 0
    /\ llmCalls = 0
    /\ events = "unset"
    /\ ppc = "start"

\* ActionRAGAnswer.run, lines 95-98: an empty question is answered at once
RasaEmptyQuery ==
    /\ ppc = "start"
    /\ pipeline = "rasa"
    /\ query = ""
    /\ uttered' = Append(uttered, "unrecognised")
    /\ events' = "[]"
    /\ ppc' = "returned"
    /\ UNCHANGED <<pipeline, translator, query, query_en, hits_ru, hits_en, searches,
                   searchErr, fuse_order, useLlm, llm, llmCalls,
                   mmrVars, mergeVars, fuseVars, searchVars, toolVars>>

\* q_en = maybe_translate_ru2en(q_ru) / query_en = maybe_translate_ru2en(query)
PipeTranslate ==
    /\ ppc = "start"
    /\ pipeline = "rasa" => query # ""
    /\ \E o \in (IF pipeline = "rasa" THEN maybe_translate_ru2en_rasa(query)
                 ELSE maybe_translate_ru2en(query)) :
          IF o.raised
          THEN /\ ppc' = "raised"
               /\ UNCHANGED query_en
          ELSE /\ ppc' = "translated"
               /\ query_en' = o.value
    /\ UNCHANGED <<pipeline, translator, query, hits_ru, hits_en, searches,
                   searchErr, fuse_order, uttered, useLlm, llm, llmCalls, events,
                   mmrVars, mergeVars, fuseVars, searchVars, toolVars>>

\* the second search is made whenever the translated query is not empty
SecondSearchLikeMain == query_en # ""

\* the second search of a pipeline is made: the mains search whenever q_en
\* is not empty, run only when query_en is not empty and differs from query
SecondSearch ==
    IF pipeline = "rasa" THEN query_en # "" /\ query_en # query ELSE query_en # ""

\* both searches answer: hits_ru = search_hybrid(query, ...), then hits_en =
\* search_hybrid(query_en, ...) or [] when the second search is not made
PipeSearch ==
    /\ ppc = "translated"
    /\ hits_ru' \in SearchResults
    /\ IF SecondSearch
       THEN /\ hits_en' \in SearchResults
            /\ searches' = <<query, query_en>>
       ELSE /\ hits_en' = <<>>
            /\ searches' = <<query>>
    /\ ppc' = "searched"
    /\ UNCHANGED <<pipeline, translator, query, query_en, searchErr, fuse_order, uttered,
                   useLlm, llm, llmCalls, events, mmrVars, mergeVars, fuseVars, searchVars, toolVars>>

\* full/qa_cli.py lines 108-109, full_qdrant/qa_cli.py lines 91-92 when a
\* search raises: nothing catches it, main ends with the exception
MainSearchRaises ==
    /\ ppc = "translated"
    /\ pipeline \in {"full", "full_qdrant"}
    /\ \/ /\ searches' = <<query>>
          /\ UNCHANGED hits_ru
       \/ /\ SecondSearch
          /\ hits_ru' \in SearchResults
          /\ searches' = <<query, query_en>>
    /\ searchErr' = TRUE
    /\ ppc' = "raised"
    /\ UNCHANGED <<pipeline, translator, query, query_en, hits_en, fuse_order, uttered,
                   useLlm, llm, llmCalls, events, mmrVars, mergeVars, fuseVars, searchVars, toolVars>>

\* a search raises in run and nothing catches it
RasaSearchEscapes ==
    /\ ppc = "translated"
    /\ pipeline = "rasa"
    /\ \/ /\ searches' = <<query>>
          /\ UNCHANGED hits_ru
       \/ /\ SecondSearch
          /\ hits_ru' \in SearchResults
          /\ searches' = <<query, query_en>>
    /\ searchErr' = TRUE
    /\ ppc' = "raised"
    /\ UNCHANGED <<pipeline, translator, query, query_en, hits_en, fuse_order, uttered,
                   useLlm, llm, llmCalls, events, mmrVars, mergeVars, fuseVars, searchVars, toolVars>>

\* actions.py lines 104-112 when a search raises: the exception is caught,
\* one message is sent and run returns []
RasaSearchRaises ==
    /\ ppc = "translated"
    /\ pipeline = "rasa"
    /\ \/ /\ searches' = <<query>>
          /\ UNCHANGED hits_ru
       \/ /\ SecondSearch
          /\ hits_ru' \in SearchResults
          /\ searches' = <<query, query_en>>
    /\ searchErr' = TRUE
    /\ uttered' = Append(uttered, "no_context")
    /\ events' = "[]"
    /\ ppc' = "returned"
    /\ UNCHANGED <<pipeline, translator, query, query_en, hits_en, fuse_order,
                   useLlm, llm, llmCalls, mmrVars, mergeVars, fuseVars, searchVars, toolVars>>

\* full/qa_cli.py line 110, full_qdrant/qa_cli.py line 93:
\* contexts = _merge_hits(hits_en, hits_ru, limit=args.k), up to the loop
MainFuse ==
    /\ ppc = "searched"
    /\ pipeline \in {"full", "full_qdrant"}
    /\ hit_groups' = <<hits_en, hits_ru>>
    /\ fuse_order' = <<"en", "ru">>
    /\ limit' = "unread" /\ by_id' = <<>> /\ pos' = 0 /\ out' = <<>> /\ gpc' = "loop"
    /\ ppc' = "fusing"
    /\ UNCHANGED <<pipeline, translator, query, query_en, hits_ru, hits_en, searches,
                   searchErr, uttered, useLlm, llm, llmCalls, events,
                   mmrVars, fuseVars, searchVars, toolVars>>

\* actions.py line 114:
\* contexts = _merge_hits(hits_ru, hits_en, limit=self._contexts_to_return)
RasaFuse ==
    /\ ppc = "searched"
    /\ pipeline = "rasa"
    /\ hit_groups' = <<hits_ru, hits_en>>
    /\ fuse_order' = <<"ru", "en">>
    /\ limit' = "unread" /\ by_id' = <<>> /\ pos' = 0 /\ out' = <<>> /\ gpc' = "loop"
    /\ ppc' = "fusing"
    /\ UNCHANGED <<pipeline, translator, query, query_en, hits_ru, hits_en, searches,
                   searchErr, uttered, useLlm, llm, llmCalls, events,
                   mmrVars, fuseVars, searchVars, toolVars>>

\* "if not contexts": a main prints that there are no results and returns,
\* run sends one message and returns []
PipeNoContexts ==
    /\ ppc = "fusing"
    /\ gpc = "done"
    /\ out = <<>>
    /\ uttered' = IF pipeline = "rasa" THEN Append(uttered, "not_found") ELSE uttered
    /\ events' = IF pipeline = "rasa" THEN "[]" ELSE "None"
    /\ ppc' = "returned"
    /\ UNCHANGED <<pipeline, translator, query, query_en, hits_ru, hits_en, searches,
                   searchErr, fuse_order, useLlm, llm, llmCalls,
                   mmrVars, mergeVars, fuseVars, searchVars, toolVars>>

\* the contexts are there and the pipeline goes on to show or to answer
PipeContexts ==
    /\ ppc = "fusing"
    /\ gpc = "done"
    /\ out # <<>>
    /\ ppc' = "merged"
    /\ UNCHANGED <<pipeline, translator, query, query_en, hits_ru, hits_en, searches,
                   searchErr, fuse_order, uttered, useLlm, llm, llmCalls, events,
                   mmrVars, mergeVars, fuseVars, searchVars, toolVars>>

\* a main called without --llm returns after printing the contexts
MainNoLlm ==
    /\ ppc = "merged"
    /\ pipeline \in {"full", "full_qdrant"}
    /\ ~useLlm
    /\ events' = "None"
    /\ ppc' = "returned"
    /\ UNCHANGED <<pipeline, translator, query, query_en, hits_ru, hits_en, searches,
                   searchErr, fuse_order, uttered, useLlm, llm, llmCalls,
                   mmrVars, mergeVars, fuseVars, searchVars, toolVars>>

\* a main with --llm: llm = LLMClient(); ans = llm.generate(...); print
MainLlmAnswers ==
    /\ ppc = "merged"
    /\ pipeline \in {"full", "full_qdrant"}
    /\ useLlm
    /\ llmCalls' = llmCalls + 1
    /\ events' = "None"
    /\ ppc' = "returned"
    /\ UNCHANGED <<pipeline, translator, query, query_en, hits_ru, hits_en, searches,
                   searchErr, fuse_order, uttered, useLlm, llm,
                   mmrVars, mergeVars, fuseVars, searchVars, toolVars>>

\* a main with --llm when LLMClient() or llm.generate raises: nothing
\* catches it
MainLlmRaises ==
    /\ ppc = "merged"
    /\ pipeline \in {"full", "full_qdrant"}
    /\ useLlm
    /\ \/ UNCHANGED llmCalls
       \/ llmCalls' = llmCalls + 1
    /\ ppc' = "raised"
    /\ UNCHANGED <<pipeline, translator, query, query_en, hits_ru, hits_en, searches,
                   searchErr, fuse_order, uttered, useLlm, llm, events,
                   mmrVars, mergeVars, fuseVars, searchVars, toolVars>>

\* actions.py lines 139-166: self._ensure_llm().generate(...) answers; the
\* answer and then the sources are sent, run returns []
RasaLlmAnswers ==
    /\ ppc = "merged"
    /\ pipeline = "rasa"
    /\ llm' = 1
    /\ llmCalls' = llmCalls + 1
    /\ uttered' = uttered \o <<"answer", "sources">>
    /\ events' = "[]"
    /\ ppc' = "returned"
    /\ UNCHANGED <<pipeline, translator, query, query_en, hits_ru, hits_en, searches,
                   searchErr, fuse_order, useLlm, mmrVars, mergeVars, fuseVars, searchVars, toolVars>>

\* LLMClient() or generate raises in run and nothing catches it
RasaLlmEscapes ==
    /\ ppc = "merged"
    /\ pipeline = "rasa"
    /\ \/ UNCHANGED <<llm, llmCalls>>
       \/ /\ llm' = 1
          /\ llmCalls' = llmCalls + 1
    /\ ppc' = "raised"
    /\ UNCHANGED <<pipeline, translator, query, query_en, hits_ru, hits_en, searches,
                   searchErr, fuse_order, uttered, useLlm, events,
                   mmrVars, mergeVars, fuseVars, searchVars, toolVars>>

\* actions.py lines 139-144: LLMClient() raises inside _ensure_llm, or
\* generate raises; the exception is caught, one message is sent, run
\* returns []
RasaLlmFails ==
    /\ ppc = "merged"
    /\ pipeline = "rasa"
    /\ \/ UNCHANGED <<llm, llmCalls>>
       \/ /\ llm' = 1
          /\ llmCalls' = llmCalls + 1
    /\ uttered' = Append(uttered, "llm_failed")
    /\ events' = "[]"
    /\ ppc' = "returned"
    /\ UNCHANGED <<pipeline, translator, query, query_en, hits_ru, hits_en, searches,
                   searchErr, fuse_order, useLlm, mmrVars, mergeVars, fuseVars, searchVars, toolVars>>

\* the hits of a search result carry ids and float scores, so of the steps of
\* _merge_hits only the insertion, the comparison and the return can happen
PipeNext ==
    \/ RasaEmptyQuery
    \/ PipeTranslate
    \/ PipeSearch
    \/ MainSearchRaises
    \/ RasaSearchRaises
    \/ MainFuse
    \/ RasaFuse
    \/ MergeInsert
    \/ MergeCompare
    \/ MergeReturn
    \/ PipeNoContexts
    \/ PipeContexts
    \/ MainNoLlm
    \/ MainLlmAnswers
    \/ MainLlmRaises
    \/ RasaLlmAnswers
    \/ RasaLlmFails

PipeSpec == PipeInit /\ [][PipeNext]_vars

----------------------------------------------------------------------------
(* the pipelines: claims *)

\* the search a traversed entry came from: "en" for the translated query,
\* "ru" for the primary one
Origin(r) == fuse_order[IF r <= Len(hit_groups[1]) THEN 1 ELSE 2]

\* both searches returned id and score of the entry h
TiedAcrossSearches(h) ==
    /\ \E a \in 1..Len(hits_en) : hits_en[a] = h
    /\ \E b \in 1..Len(hits_ru) : hits_ru[b] = h

\* C19: every pipeline hands the two results to _merge_hits in the same
\* order, the translated-query results first and the primary-query results
\* second, so that of two entries of one id and equal score the one of the
\* translated query is the one returned, in every pipeline.
C19_TranslatedFirstInEveryPipeline ==
    fuse_order # <<>> =>
        /\ fuse_order = <<"en", "ru">>
        /\ gpc = "done" =>
              \A p \in 1..Len(out) :
                  TiedAcrossSearches(HitAt(out[p])) => Origin(out[p]) = "en"

C19_HoldsInMains ==
    pipeline \in {"full", "full_qdrant"} => C19_TranslatedFirstInEveryPipeline

\* ActionRAGAnswer.run returned the primary-query entry of a tie
C19_RasaKeepsPrimaryOnTie ==
    /\ pipeline = "rasa"
    /\ gpc = "done"
    /\ \E p \in 1..Len(out) :
          TiedAcrossSearches(HitAt(out[p])) /\ Origin(out[p]) = "ru"

\* C20: maybe_translate_ru2en never raises; without a translator, or with a
\* translator that throws, it returns the query it was given, and the
\* pipeline goes on to search with the original query first.
C20_TranslateNeverRaises ==
    /\ ppc = "raised" => query_en # Untranslated
    /\ (ppc # "start" /\ ~(pipeline = "rasa" /\ query = "")) =>
          /\ query_en # Untranslated
          /\ translator \in {"absent", "throws"} => query_en = query
    /\ ppc \in {"searched", "fusing", "merged"} => (searches # <<>> /\ searches[1] = query)
    /\ searches # <<>> => searches[1] = query

\* the translator threw, the query came back unchanged and was searched
C20_Witness ==
    /\ translator = "throws"
    /\ query # ""
    /\ ppc = "searched"
    /\ query_en = query
    /\ searches[1] = query

----------------------------------------------------------------------------
(* The merge written out in main of the top-level qa_cli.py, next to
   _merge_hits(hits_en, hits_ru, limit=k) of full/qa_cli.py *)

\* hits as search_hybrid returns them: an id and a float score
ScoredHits == {h \in Hits : h.id # None /\ h.score.kind \in {"float", "nan", "inf"}}

\* for h in hits_en + hits_ru: by_id.setdefault(h["id"], h)
RECURSIVE SetDefaultLoop(_, _, _)
SetDefaultLoop(flat, p, by) ==
    IF p > Len(flat) THEN by
    ELSE IF PureSlot(by, flat[p].id) = 0
         THEN SetDefaultLoop(flat, p + 1, Append(by, [key |-> flat[p].id, hit |-> flat[p]]))
         ELSE SetDefaultLoop(flat, p + 1, by)

\* contexts = list(by_id.values())[:args.k]
inline_merge(hen, hru, kk) ==
    LET by == SetDefaultLoop(hen \o hru, 1, <<>>)
        vals == [p \in 1..Len(by) |-> by[p].hit]
    IN  [raised |-> FALSE, kept |-> vals, outs |-> {Take(vals, kk)}]

\* the inputs are hits_en and hits_ru, holding at most MaxHits hits in all
InlineInit ==
    /\ ToolIdle
    /\ MmrIdle /\ MergeIdle /\ SearchIdle /\ PipeIdle
    /\ \E n \in 0..MaxHits :
          \E f \in [1..n -> ScoredHits] :
              \E c \in 0..n :
                  fIn = <<SubSeq(Tagged(f), 1, c), SubSeq(Tagged(f), c + 1, n)>>
    /\ fAlt = <<>> /\ fLimit = 0 /\ fOnce = <<>> /\ fAgain = <<>>
    /\ fpc = "start"

\* the same lists and the same k through the lines 48-52 of qa_cli.py
FuseInline ==
    /\ fpc = "once"
    /\ fAgain' = inline_merge(fIn[1], fIn[2], fLimit)
    /\ fpc' = "inline"
    /\ UNCHANGED <<fIn, fAlt, fLimit, fOnce, mmrVars, mergeVars, searchVars, pipeVars, toolVars>>

InlineNext == FuseOnce \/ FuseInline

InlineSpec == InlineInit /\ [][InlineNext]_vars

----------------------------------------------------------------------------
(* _merge_hits on hits of three ids, for the order of entries of equal score *)

\* hits with an id and a score the code accepts
OrderHits == {Hit(i, sc) : i \in {"A", "B", "C"}, sc \in {Num(2), Num(9), NaN}}

\* the inputs are two sequences holding at most MaxHits hits in all
OrderInit ==
    /\ ToolIdle
    /\ MmrIdle /\ MergeIdle /\ SearchIdle /\ PipeIdle
    /\ \E n \in 0..MaxHits :
          \E f \in [1..n -> OrderHits] :
              \E c \in 0..n :
                  fIn = <<SubSeq(Tagged(f), 1, c), SubSeq(Tagged(f), c + 1, n)>>
    /\ fAlt = <<>> /\ fLimit = 0 /\ fOnce = <<>> /\ fAgain = <<>>
    /\ fpc = "start"

\* the result is handed to the caller
FuseReturn ==
    /\ fpc = "once"
    /\ fpc' = "returned"
    /\ UNCHANGED <<fIn, fAlt, fLimit, fOnce, fAgain,
                   mmrVars, mergeVars, searchVars, pipeVars, toolVars>>

OrderNext == FuseOnce \/ FuseReturn

OrderSpec == OrderInit /\ [][OrderNext]_vars

----------------------------------------------------------------------------
(* The chunkers: chunk_text of full/ingest.py, _chunk_text of
   light/build_store.py and chunk_text of the top-level ingest.py.  A text is
   a sequence of characters, "x" for any character that is not white space. *)

MaxText == 6
MaxLen == 3
MaxOverlap == 4

Chars == {"x", " "}

Texts == UNION {[1..n -> Chars] : n \in 0..MaxText}

Chunkers == {"full", "light", "top"}

\* str.split() without arguments: the maximal runs of characters that are
\* not white space; cur is the run being read
RECURSIVE SplitWords(_, _)
SplitWords(s, cur) ==
    IF s = <<>> THEN (IF cur = <<>> THEN <<>> ELSE <<cur>>)
    ELSE IF Head(s) = " "
         THEN (IF cur = <<>> THEN SplitWords(Tail(s), <<>>)
               ELSE <<cur>> \o SplitWords(Tail(s), <<>>))
         ELSE SplitWords(Tail(s), Append(cur, Head(s)))

split(s) == SplitWords(s, <<>>)

\* " ".join(ws)
RECURSIVE join(_)
join(ws) ==
    IF ws = <<>> THEN <<>>
    ELSE IF Len(ws) = 1 THEN ws[1]
    ELSE ws[1] \o <<" ">> \o join(Tail(ws))

\* ws[a : b] for 0 <= a
Slice(ws, a, b) == SubSeq(ws, a + 1, Min(b, Len(ws)))

\* the step without the floor of one
StepUnguarded(ml, ov) == ml - ov

\* step = max(1, max_len - overlap)
StepGuarded(ml, ov) == Max(1, ml - ov)

\* the third argument of range in the top-level ingest.py
StepPlain(ml, ov) == ml - ov

StepOf(c, ml, ov) == IF c = "top" THEN StepPlain(ml, ov) ELSE StepGuarded(ml, ov)

\* i in range(0, n, st), for the values i the loop gives start
InRange(i, n, st) == IF st > 0 THEN i < n ELSE i > n

\* nothing of the query path has been called
QueryIdle == MmrIdle /\ MergeIdle /\ FuseIdle /\ SearchIdle /\ PipeIdle

ChunkInit ==
    /\ QueryIdle
    /\ GenIdle
    /\ LangIdle
    /\ RaceIdle
    /\ chunker \in Chunkers
    /\ ctext \in Texts
    /\ max_len \in 1..MaxLen
    /\ overlap \in 0..MaxOverlap
    /\ words = <<>>
    /\ step = 1
    /\ start = 0
    /\ chunks = <<>>
    /\ cpc = "start"

\* the first next() of the generator: words and the range are made
ChunkBegin ==
    /\ cpc = "start"
    /\ StepOf(chunker, max_len, overlap) # 0
    /\ words' = split(ctext)
    /\ step' = StepOf(chunker, max_len, overlap)
    /\ start' = 0
    /\ cpc' = "loop"
    /\ UNCHANGED <<chunker, ctext, max_len, overlap, chunks, notChunkVars>>

\* range() with a step of zero raises ValueError
ChunkRangeRaises ==
    /\ cpc = "start"
    /\ StepOf(chunker, max_len, overlap) = 0
    /\ words' = split(ctext)
    /\ step' = 0
    /\ cpc' = "raised"
    /\ UNCHANGED <<chunker, ctext, max_len, overlap, start, chunks, notChunkVars>>

\* one pass of the loop body: yield " ".join(words[i : i + max_len])
ChunkYield ==
    /\ cpc = "loop"
    /\ InRange(start, Len(words), step)
    /\ chunks' = Append(chunks, join(Slice(words, start, start + max_len)))
    /\ start' = start + step
    /\ UNCHANGED <<chunker, ctext, max_len, overlap, words, step, cpc, notChunkVars>>

\* the range is exhausted
ChunkStop ==
    /\ cpc = "loop"
    /\ ~InRange(start, Len(words), step)
    /\ cpc' = "done"
    /\ UNCHANGED <<chunker, ctext, max_len, overlap, words, step, start, chunks, notChunkVars>>

ChunkNext ==
    \/ ChunkBegin
    \/ ChunkRangeRaises
    \/ ChunkYield
    \/ ChunkStop

ChunkSpec == ChunkInit /\ [][ChunkNext]_vars

----------------------------------------------------------------------------
(* LLMClient.generate of rasa_rag/actions/llm_client.py: the retry loop *)

MaxRetries == 2

\* int(os.getenv("LLM_RETRIES", "2")): any integer
RetriesValues == (0 - 2)..MaxRetries

\* how an attempt fails: requests.post raises, raise_for_status raises, the
\* body is not the expected JSON
Failures == {"ConnectionError", "HTTPError", "KeyError"}

\* a loop over range(self.retries)
AttemptsAllowedWithoutFirst(r) == r

\* range(self.retries + 1)
AttemptsAllowed(r) == r + 1

GenInit ==
    /\ QueryIdle
    /\ ChunkIdle
    /\ LangIdle
    /\ RaceIdle
    /\ retries \in RetriesValues
    /\ posts = <<>>
    /\ err = "None"
    /\ sleeps = 0
    /\ answer = "unset"
    /\ lpc = "loop"

\* an attempt succeeds: return r.json()["choices"][0]["message"]["content"]
GenAttemptReturns ==
    /\ lpc = "loop"
    /\ Len(posts) < AttemptsAllowed(retries)
    /\ posts' = Append(posts, "ok")
    /\ answer' = "content"
    /\ lpc' = "returned"
    /\ UNCHANGED <<retries, err, sleeps, notGenVars>>

\* an attempt fails: err = e; time.sleep(0.3)
GenAttemptFails ==
    /\ lpc = "loop"
    /\ Len(posts) < AttemptsAllowed(retries)
    /\ \E e \in Failures :
          /\ posts' = Append(posts, e)
          /\ err' = e
    /\ sleeps' = sleeps + 1
    /\ UNCHANGED <<retries, answer, lpc, notGenVars>>

\* the range is exhausted: raise RuntimeError(f"LLM error: {err}")
GenRaises ==
    /\ lpc = "loop"
    /\ Len(posts) >= AttemptsAllowed(retries)
    /\ answer' = "RuntimeError"
    /\ lpc' = "raised"
    /\ UNCHANGED <<retries, posts, err, sleeps, notGenVars>>

GenNext ==
    \/ GenAttemptReturns
    \/ GenAttemptFails
    \/ GenRaises

\* every attempt ends, by the timeout of the request at the latest, and the
\* sleep is 0.3 seconds: the loop is never stalled
GenSpec == GenInit /\ [][GenNext]_vars /\ WF_vars(GenNext)

----------------------------------------------------------------------------
(* _looks_like_russian and _translate_to_ru of light/build_store.py.  A
   character is its code point, a string a sequence of code points. *)

MaxLangText == 3
MaxTranslators == 2

\* я Я ё Ё z Z, İ (U+0130, whose lower() is the two characters i U+0307),
\* é, the digit 1 and the space
LangChars == {1103, 1071, 1105, 1025, 122, 90, 304, 233, 49, 32}

LangTexts == UNION {[1..n -> LangChars] : n \in 0..MaxLangText}

TranslatorLists == UNION {[1..n -> {"ok", "throws"}] : n \in 0..MaxTranslators}

\* ch.isalpha()
isalpha(ch) == ch \notin {49, 32}

\* ch.lower(), a string
lower(ch) ==
    IF ch = 1071 THEN <<1103>>
    ELSE IF ch = 1025 THEN <<1105>>
    ELSE IF ch = 90 THEN <<122>>
    ELSE IF ch = 304 THEN <<105, 775>>
    ELSE <<ch>>

\* a <= b for strings: by code points, a proper prefix first
RECURSIVE StrLe(_, _)
StrLe(a, b) ==
    IF a = <<>> THEN TRUE
    ELSE IF b = <<>> THEN FALSE
    ELSE IF Head(a) # Head(b) THEN Head(a) < Head(b)
    ELSE StrLe(Tail(a), Tail(b))

\* "а" <= ch.lower() <= "я" or ch.lower() == "ё"
CountsAsCyr(ch) ==
    \/ StrLe(<<1072>>, lower(ch)) /\ StrLe(lower(ch), <<1103>>)
    \/ lower(ch) = <<1105>>

\* "a" <= ch.lower() <= "z"
CountsAsLat(ch) == StrLe(<<97>>, lower(ch)) /\ StrLe(lower(ch), <<122>>)

\* sum(... for ch in text if ch.isalpha())
cyr(t) == Cardinality({i \in 1..Len(t) : isalpha(t[i]) /\ CountsAsCyr(t[i])})

lat(t) == Cardinality({i \in 1..Len(t) : isalpha(t[i]) /\ CountsAsLat(t[i])})

looks_like_russian(t) == IF t = <<>> THEN TRUE ELSE cyr(t) >= lat(t)

LangInit ==
    /\ QueryIdle
    /\ ChunkIdle
    /\ GenIdle
    /\ RaceIdle
    /\ ltext \in LangTexts
    /\ translators \in TranslatorLists
    /\ looks = "unset"
    /\ tried = 0
    /\ lout = "unset"
    /\ tpc = "start"

\* if not text or _looks_like_russian(text) or not _translators_to_ru:
\*     return text
TranslateSkips ==
    /\ tpc = "start"
    /\ ltext = <<>> \/ looks_like_russian(ltext) \/ translators = <<>>
    /\ looks' = IF ltext = <<>> THEN "unset"
                ELSE IF looks_like_russian(ltext) THEN "True" ELSE "False"
    /\ lout' = "text"
    /\ tpc' = "done"
    /\ UNCHANGED <<ltext, translators, tried, notLangVars>>

\* the test fails and the loop over the translators begins
TranslateBegins ==
    /\ tpc = "start"
    /\ ~(ltext = <<>> \/ looks_like_russian(ltext) \/ translators = <<>>)
    /\ looks' = "False"
    /\ tpc' = "loop"
    /\ UNCHANGED <<ltext, translators, tried, lout, notLangVars>>

\* return translator.translate(text)
TranslateReturns ==
    /\ tpc = "loop"
    /\ tried < Len(translators)
    /\ translators[tried + 1] = "ok"
    /\ tried' = tried + 1
    /\ lout' = "translation"
    /\ tpc' = "done"
    /\ UNCHANGED <<ltext, translators, looks, notLangVars>>

\* translate raises: except Exception: continue
TranslateContinues ==
    /\ tpc = "loop"
    /\ tried < Len(translators)
    /\ translators[tried + 1] = "throws"
    /\ tried' = tried + 1
    /\ UNCHANGED <<ltext, translators, looks, lout, tpc, notLangVars>>

\* every translator raised: return text
TranslateGivesUp ==
    /\ tpc = "loop"
    /\ tried >= Len(translators)
    /\ lout' = "text"
    /\ tpc' = "done"
    /\ UNCHANGED <<ltext, translators, looks, tried, notLangVars>>

LangNext ==
    \/ TranslateSkips
    \/ TranslateBegins
    \/ TranslateReturns
    \/ TranslateContinues
    \/ TranslateGivesUp

LangSpec == LangInit /\ [][LangNext]_vars

----------------------------------------------------------------------------
(* Threads making their first call of search_hybrid: the test, the
   construction, the store and the return of _client_singleton and of
   _model_singleton are separate steps of a thread, and the steps of the
   threads interleave.  The globals _client and _model are the variables
   client and model. *)

NThreads == 2

Threads == 1..NThreads

RaceInit ==
    /\ QueryIdle
    /\ ChunkIdle
    /\ GenIdle
    /\ LangIdle
    /\ at = [t \in Threads |-> "client_test"]
    /\ fresh = [t \in Threads |-> 0]
    /\ cliOf = [t \in Threads |-> 0]
    /\ mOf = [t \in Threads |-> 0]

\* if _client is None:
ClientTest(t) ==
    /\ at[t] = "client_test"
    /\ at' = [at EXCEPT ![t] = IF client = 0 THEN "client_build" ELSE "client_return"]
    /\ UNCHANGED <<client, clientMade, model, modelMade, fresh, cliOf, mOf, notHandleVars>>

\* QdrantClient(host=..., port=..., timeout=30)
ClientBuild(t) ==
    /\ at[t] = "client_build"
    /\ clientMade' = clientMade + 1
    /\ fresh' = [fresh EXCEPT ![t] = clientMade']
    /\ at' = [at EXCEPT ![t] = "client_store"]
    /\ UNCHANGED <<client, model, modelMade, cliOf, mOf, notHandleVars>>

\* _client = <the new instance>
ClientStore(t) ==
    /\ at[t] = "client_store"
    /\ client' = fresh[t]
    /\ at' = [at EXCEPT ![t] = "client_return"]
    /\ UNCHANGED <<clientMade, model, modelMade, fresh, cliOf, mOf, notHandleVars>>

\* return _client, and line 77 of search_hybrid: cli = _client_singleton()
ClientReturn(t) ==
    /\ at[t] = "client_return"
    /\ cliOf' = [cliOf EXCEPT ![t] = client]
    /\ at' = [at EXCEPT ![t] = "model_test"]
    /\ UNCHANGED <<client, clientMade, model, modelMade, fresh, mOf, notHandleVars>>

\* if _model is None:
ModelTest(t) ==
    /\ at[t] = "model_test"
    /\ at' = [at EXCEPT ![t] = IF model = 0 THEN "model_build" ELSE "model_return"]
    /\ UNCHANGED <<client, clientMade, model, modelMade, fresh, cliOf, mOf, notHandleVars>>

\* SentenceTransformer(EMBED_MODEL)
ModelBuild(t) ==
    /\ at[t] = "model_build"
    /\ modelMade' = modelMade + 1
    /\ fresh' = [fresh EXCEPT ![t] = modelMade']
    /\ at' = [at EXCEPT ![t] = "model_store"]
    /\ UNCHANGED <<client, clientMade, model, cliOf, mOf, notHandleVars>>

\* _model = <the new instance>
ModelStore(t) ==
    /\ at[t] = "model_store"
    /\ model' = fresh[t]
    /\ at' = [at EXCEPT ![t] = "model_return"]
    /\ UNCHANGED <<client, clientMade, modelMade, fresh, cliOf, mOf, notHandleVars>>

\* return _model, and line 50 of _embed: m = _model_singleton()
ModelReturn(t) ==
    /\ at[t] = "model_return"
    /\ mOf' = [mOf EXCEPT ![t] = model]
    /\ at' = [at EXCEPT ![t] = "done"]
    /\ UNCHANGED <<client, clientMade, model, modelMade, fresh, cliOf, notHandleVars>>

RaceNext ==
    \E t \in Threads :
        \/ ClientTest(t)
        \/ ClientBuild(t)
        \/ ClientStore(t)
        \/ ClientReturn(t)
        \/ ModelTest(t)
        \/ ModelBuild(t)
        \/ ModelStore(t)
        \/ ModelReturn(t)

RaceSpec == RaceInit /\ [][RaceNext]_vars

\* C21: when a call of search_hybrid raises inside ActionRAGAnswer.run, the
\* exception does not leave run: exactly one message, the one saying the
\* context could not be fetched, is sent, the LLM is not called and run
\* returns an empty event list.
C21_SearchFailureIsSurfaced ==
    pipeline = "rasa" =>
        /\ ppc # "raised"
        /\ searchErr =>
              /\ ppc = "returned"
              /\ uttered = <<"no_context">>
              /\ llmCalls = 0
              /\ events = "[]"

\* the second search of a run raised
C21_Witness ==
    /\ pipeline = "rasa"
    /\ searchErr
    /\ Len(searches) = 2
    /\ ppc = "returned"

\* C26: run calls the LLM at most once, and only for a non-empty query whose
\* searches did not fail and whose fused contexts are not empty; otherwise
\* exactly one fallback message is sent.  When the LLM answers, two messages
\* are sent, the answer and then the sources; when it fails, one fallback
\* message and no sources.  Every path returns an empty event list.
C26_LlmOnlyWithContexts ==
    pipeline = "rasa" =>
        /\ ppc # "raised"
        /\ llmCalls <= 1
        /\ llmCalls = 1 =>
              (query # "" /\ ~searchErr /\ gpc = "done" /\ out # <<>>)
        /\ ppc = "returned" =>
              /\ events = "[]"
              /\ IF query = "" THEN uttered = <<"unrecognised">> /\ llmCalls = 0
                 ELSE IF searchErr THEN uttered = <<"no_context">> /\ llmCalls = 0
                 ELSE IF out = <<>> THEN uttered = <<"not_found">> /\ llmCalls = 0
                 ELSE \/ uttered = <<"answer", "sources">> /\ llmCalls = 1
                      \/ uttered = <<"llm_failed">>
        /\ ppc # "returned" => (uttered = <<>> /\ llmCalls = 0 /\ events = "unset")

\* run has sent the answer and the sources
C26_Witness ==
    /\ pipeline = "rasa"
    /\ ppc = "returned"
    /\ uttered = <<"answer", "sources">>
    /\ llmCalls = 1

\* C27: for a non-empty query run searches first with the original query,
\* and a second time, with the translated query, only when that is not empty
\* and differs from the original; so without a translator, with one that
\* fails or with one that returns the query unchanged there is one search,
\* and there are never more than two.
C27_SecondSearchOnlyForNewTranslation ==
    (pipeline = "rasa" /\ query # "") =>
        /\ Len(searches) <= 2
        /\ searches # <<>> => searches[1] = query
        /\ Len(searches) = 2 =>
              (searches[2] = query_en /\ query_en # "" /\ query_en # query)
        /\ (translator \in {"absent", "throws"} \/ query_en = query) => Len(searches) <= 1
        /\ (ppc \in {"searched", "fusing", "merged"} \/ (ppc = "returned" /\ ~searchErr)) =>
              Len(searches) = (IF query_en # "" /\ query_en # query THEN 2 ELSE 1)

\* run has searched twice, the second time with a translation
C27_Witness ==
    /\ pipeline = "rasa"
    /\ ppc = "searched"
    /\ searches = <<query, query_en>>
    /\ query_en = "question"

\* the chunkers of full/ingest.py and light/build_store.py
Guarded == chunker \in {"full", "light"}

\* the step the description gives
DescribedStep == IF max_len - overlap >= 1 THEN max_len - overlap ELSE 1

\* the word positions (from 0) of the chunk number j (from 1) of the description
DescribedRange(j) ==
    {i \in 0..(Len(words) - 1) :
        (j - 1) * DescribedStep <= i /\ i < (j - 1) * DescribedStep + max_len}

\* the word positions in increasing order
RECURSIVE InOrder(_)
InOrder(S) ==
    IF S = {} THEN <<>>
    ELSE LET m == CHOOSE x \in S : \A y \in S : x <= y
         IN <<m>> \o InOrder(S \ {m})

\* the words at the positions of S, joined by single spaces
RECURSIVE JoinedAt(_)
JoinedAt(ps) ==
    IF ps = <<>> THEN <<>>
    ELSE IF Len(ps) = 1 THEN words[ps[1] + 1]
    ELSE words[ps[1] + 1] \o <<" ">> \o JoinedAt(Tail(ps))

\* the chunks yielded so far are those of the description, none is missing
\* at the end, and nothing is raised
ChunksAsDescribed ==
    Guarded =>
        /\ cpc # "raised"
        /\ cpc \in {"loop", "done"} =>
              /\ words = split(ctext)
              /\ step = DescribedStep
              /\ start = Len(chunks) * DescribedStep
              /\ \A j \in 1..Len(chunks) :
                    /\ DescribedRange(j) # {}
                    /\ chunks[j] = JoinedAt(InOrder(DescribedRange(j)))
        /\ cpc = "done" => DescribedRange(Len(chunks) + 1) = {}

\* with overlap >= max_len the chunker advances one word per chunk and ends
\* with the last word alone
LargeOverlapAdvancesByOne ==
    (Guarded /\ overlap >= max_len /\ cpc \in {"loop", "done"}) =>
        /\ step = 1
        /\ Len(chunks) <= Len(words)
        /\ (cpc = "done" /\ words # <<>>) =>
              /\ Len(chunks) = Len(words)
              /\ chunks[Len(chunks)] = words[Len(words)]

\* C22 as stated: chunk_text of full/ingest.py and _chunk_text yield, for
\* start = 0, step, 2*step, ... below the number of words, with
\* step = max(1, max_len - overlap), the words [start, start + max_len)
\* joined by single spaces; consecutive chunks share exactly overlap words
\* when overlap < max_len; with overlap >= max_len the chunker terminates,
\* advancing one word per chunk and ending with the last word alone.
C22_ConsecutiveShareExactlyOverlap ==
    /\ ChunksAsDescribed
    /\ LargeOverlapAdvancesByOne
    /\ (Guarded /\ overlap < max_len) =>
          \A j \in 1..(Len(chunks) - 1) :
              Cardinality(DescribedRange(j) \cap DescribedRange(j + 1)) = overlap

\* C22 amended: the same, but consecutive chunks share overlap words only
\* while that many words are left from the start of the later chunk; at the
\* tail they share the words that are left, which are fewer.
C22_ConsecutiveShareOverlapOrRest ==
    /\ ChunksAsDescribed
    /\ LargeOverlapAdvancesByOne
    /\ (Guarded /\ overlap < max_len) =>
          \A j \in 1..(Len(chunks) - 1) :
              Cardinality(DescribedRange(j) \cap DescribedRange(j + 1))
                  = Min(overlap, Len(words) - j * DescribedStep)

\* three words chunked with max_len 3 and overlap 2: the last two chunks
\* share one word
C22_Witness ==
    /\ chunker = "full"
    /\ cpc = "done"
    /\ max_len = 3
    /\ overlap = 2
    /\ Len(words) = 3
    /\ Len(chunks) = 3

\* C30: chunk_text of the top-level ingest.py does what chunk_text of
\* full/ingest.py does: for every text, max_len >= 1 and overlap >= 0 it
\* ends without an error and yields the same chunks, so it loses no word of
\* a text that has words.
C30_TopLevelChunkerSameAsFull ==
    chunker = "top" =>
        /\ cpc # "raised"
        /\ cpc = "done" =>
              /\ Len(chunks) = Cardinality({j \in 1..Len(words) : DescribedRange(j) # {}})
              /\ \A j \in 1..Len(chunks) :
                    chunks[j] = join(Slice(words, (j - 1) * StepGuarded(max_len, overlap),
                                           (j - 1) * StepGuarded(max_len, overlap) + max_len))

\* the two chunkers agree while overlap < max_len
C30_SameWhenOverlapBelowMaxLen ==
    (chunker = "top" /\ overlap < max_len) =>
        /\ cpc # "raised"
        /\ cpc = "done" =>
              /\ Len(chunks) = Cardinality({j \in 1..Len(words) : DescribedRange(j) # {}})
              /\ \A j \in 1..Len(chunks) :
                    chunks[j] = join(Slice(words, (j - 1) * StepGuarded(max_len, overlap),
                                           (j - 1) * StepGuarded(max_len, overlap) + max_len))

\* the top-level chunker raised, and it ended without a chunk for a text
\* that has words
C30_TopLevelRaises == chunker = "top" /\ cpc = "raised" /\ overlap = max_len

C30_TopLevelLosesWords ==
    chunker = "top" /\ cpc = "done" /\ overlap > max_len /\ words # <<>> /\ chunks = <<>>

\* generate has ended
GenEnded == lpc \in {"returned", "raised"}

\* the attempts made so far, with cap the number of attempts the loop allows:
\* never more than cap, none after a success, a return exactly on a success,
\* RuntimeError only after cap failures
AttemptsWithin(cap) ==
    /\ Len(posts) <= cap
    /\ \A i \in 1..(Len(posts) - 1) : posts[i] # "ok"
    /\ (posts # <<>> /\ posts[Len(posts)] = "ok") <=> lpc = "returned"
    /\ lpc = "returned" => answer = "content"
    /\ lpc = "raised" =>
          /\ answer = "RuntimeError"
          /\ Len(posts) = cap
          /\ \A i \in 1..Len(posts) : posts[i] \in Failures

\* C23 as stated: generate makes at most retries + 1 POST attempts, returns
\* the content of the first successful one and makes no attempt after it,
\* raises RuntimeError only after exactly retries + 1 failed attempts, and
\* its loop always ends.
C23_AtMostRetriesPlusOneAttempts ==
    /\ [](lpc # "idle" => AttemptsWithin(retries + 1))
    /\ <>GenEnded

\* C23 amended: the number of attempts the loop allows is retries + 1 when
\* that is positive and 0 otherwise; with LLM_RETRIES below -1 generate
\* raises RuntimeError without an attempt.
C23_AtMostRetriesPlusOneOrNone ==
    /\ [](lpc # "idle" => AttemptsWithin(IF retries + 1 > 0 THEN retries + 1 ELSE 0))
    /\ <>GenEnded

\* RuntimeError after three failed attempts with the default of two retries
C23_Witness ==
    /\ lpc = "raised"
    /\ retries = 2
    /\ Len(posts) = 3

\* RuntimeError without an attempt
C23_RaisedWithoutAttempt ==
    /\ lpc = "raised"
    /\ retries < 0 - 1
    /\ posts = <<>>

\* the Cyrillic letters а-я, А-Я, ё, Ё and the Latin letters a-z, A-Z
IsCyrillicLetter(ch) == ch \in 1072..1103 \/ ch \in 1040..1071 \/ ch \in {1105, 1025}

IsLatinLetter(ch) == ch \in 97..122 \/ ch \in 65..90

CyrillicLetters(t) == Cardinality({i \in 1..Len(t) : IsCyrillicLetter(t[i])})

LatinLetters(t) == Cardinality({i \in 1..Len(t) : IsLatinLetter(t[i])})

\* C24: _looks_like_russian(text) is True exactly when text has at least as
\* many Cyrillic letters (а-я, ё, in either case) as Latin letters (a-z); so
\* it is True for the empty string, for a text without letters and on a tie,
\* and _translate_to_ru returns such a text unchanged without calling a
\* translator.
C24_RussianWhenCyrillicNotFewer ==
    tpc \in {"start", "loop", "done"} =>
        /\ looks_like_russian(ltext) <=> CyrillicLetters(ltext) >= LatinLetters(ltext)
        /\ (tpc = "done" /\ CyrillicLetters(ltext) >= LatinLetters(ltext)) =>
              (lout = "text" /\ tried = 0)

\* a letter whose lower() is more than one character
HasLongLower(t) == \E i \in 1..Len(t) : Len(lower(t[i])) > 1

\* the same for the texts whose letters all have a lower() of one character
C24_HoldsForOneCharacterLower ==
    (tpc \in {"start", "loop", "done"} /\ ~HasLongLower(ltext)) =>
        /\ looks_like_russian(ltext) <=> CyrillicLetters(ltext) >= LatinLetters(ltext)
        /\ (tpc = "done" /\ CyrillicLetters(ltext) >= LatinLetters(ltext)) =>
              (lout = "text" /\ tried = 0)

\* the text "İ" has no letter of a-z and is sent to a translator
C24_DottedCapitalITranslated ==
    /\ ltext = <<304>>
    /\ tpc = "done"
    /\ looks = "False"
    /\ tried = 1
    /\ lout = "translation"

\* C25: when two threads make their first call of search_hybrid at the same
\* time, in every interleaving of the test and the store of
\* _client_singleton and of _model_singleton each handle is constructed
\* exactly once and both threads use the same instance.
C25_HandlesBuiltOnceUnderThreads ==
    at # <<>> =>
        /\ clientMade <= 1
        /\ modelMade <= 1
        /\ \A t, u \in Threads :
              /\ (cliOf[t] # 0 /\ cliOf[u] # 0) => cliOf[t] = cliOf[u]
              /\ (mOf[t] # 0 /\ mOf[u] # 0) => mOf[t] = mOf[u]
        /\ (\A t \in Threads : at[t] = "done") => (clientMade = 1 /\ modelMade = 1)

\* both threads have built a client and a model, and each uses its own
C25_EachThreadItsOwnHandles ==
    /\ at # <<>>
    /\ \A t \in Threads : at[t] = "done"
    /\ clientMade = 2
    /\ modelMade = 2
    /\ cliOf[1] # cliOf[2]
    /\ mOf[1] # mOf[2]

\* C29: for all lists hits_en and hits_ru of hits with ids and numeric scores
\* and all k >= 0, the merge written out in main of the top-level qa_cli.py
\* gives the list _merge_hits(hits_en, hits_ru, limit=k) gives: the same
\* ids, the same entry for each id, in the same order.
C29_InlineMergeSameAsMergeHits ==
    fpc = "inline" =>
        /\ ~fOnce.raised
        /\ fAgain.outs = fOnce.outs

\* the same id found by both searches, with the higher score in hits_ru: the
\* inline merge keeps the entry of hits_en, _merge_hits the one of hits_ru
C29_InlineKeepsFirstSeen ==
    /\ fpc = "inline"
    /\ fLimit = 1
    /\ Shown(fIn[1]) = <<Hit("A", Num(2))>>
    /\ Shown(fIn[2]) = <<Hit("A", Num(9))>>
    /\ fAgain.outs = {fIn[1]}
    /\ fOnce.outs = {fIn[2]}

\* two ids: the inline merge leaves them in the order found, _merge_hits
\* puts the higher score first
C29_InlineDoesNotSort ==
    /\ fpc = "inline"
    /\ fLimit = 2
    /\ Shown(fIn[1]) = <<Hit("A", Num(2))>>
    /\ Shown(fIn[2]) = <<Hit("B", Num(9))>>
    /\ fAgain.outs = {fIn[1] \o fIn[2]}
    /\ fOnce.outs = {fIn[2] \o fIn[1]}

\* the place in the traversal of the input where an id is first met
FirstMet(i) ==
    LET flat == FlatFrom(fIn, 1)
    IN  CHOOSE p \in 1..Len(flat) :
            flat[p].id = i /\ \A r \in 1..(p - 1) : flat[r].id # i

\* in the list o, entries of different ids and exactly equal scores are in
\* the order their ids were first met
EqualScoresInOrderMet(o) ==
    \A a, b \in 1..Len(o) :
        (a < b /\ o[a].id # o[b].id /\ ScoreEq(o[a].score, o[b].score))
            => FirstMet(o[a].id) < FirstMet(o[b].id)

\* C28: in the output of _merge_hits two entries with different ids and
\* exactly equal scores are in the order in which their ids were first met in
\* the traversal of the input, also when the entry kept for an id is a later
\* replacement with a higher score.
C28_EqualScoresKeepFirstMetOrder ==
    fpc \in {"once", "returned"} =>
        (~fOnce.raised /\ \A o \in fOnce.outs : EqualScoresInOrderMet(o))

\* the same for inputs without a NaN score
C28_HoldsWithoutNaN ==
    (fpc \in {"once", "returned"} /\ FuseNoNonFinite) =>
        (~fOnce.raised /\ \A o \in fOnce.outs : EqualScoresInOrderMet(o))

\* A first with a low score, then B, then A again with the score of B: the
\* replacement of A stays before B
C28_ReplacementKeepsPlace ==
    /\ fpc = "returned"
    /\ Shown(FlatFrom(fIn, 1)) = <<Hit("A", Num(2)), Hit("B", Num(9)), Hit("A", Num(9))>>
    /\ fLimit = 2
    /\ \A o \in fOnce.outs : Shown(o) = <<Hit("A", Num(9)), Hit("B", Num(9))>>

\* with an entry of a NaN score the sort can put B before A
C28_NaNBreaksOrder ==
    /\ fpc = "returned"
    /\ Shown(FlatFrom(fIn, 1)) = <<Hit("A", Num(2)), Hit("B", Num(2)), Hit("C", NaN)>>
    /\ \E o \in fOnce.outs : Len(o) = 3 /\ o[1].id = "B" /\ o[2].id = "A"

====
